---- MODULE Spec2Model ----
(***************************************************************************)
(* Nested-keypad minimal-keystroke engine (src/src/day21.rs).              *)
(*                                                                         *)
(* Values:                                                                 *)
(*   Direction      "Up" | "Right" | "Down" | "Left"                       *)
(*   Pos            <<x, y>>                                               *)
(*   NumpadButton   "ButtonA" | "Button0" .. "Button9"                     *)
(*   DirpadButton   "ButtonA" | "ButtonU" | "ButtonR" | "ButtonD" |        *)
(*                  "ButtonL"                                              *)
(*   Option<T>      None = <<>>, Some(x) = <<x>>                           *)
(*   Result<T, E>   Ok(x) = <<"Ok", x>>, Err = <<"Err">>                   *)
(*   keypad         "num" (impl GridGraph for NumpadButton) or             *)
(*                  "dir" (impl GridGraph for DirpadButton)                *)
(***************************************************************************)
EXTENDS Integers, Sequences, FiniteSets, TLC

VARIABLES
    \* ---- one PathIter object and its consumer
    path_start,     \* the button iter_paths was called on
    iter,           \* the PathIter: [pad, stack, infos, goal]
    yielded,        \* the items next() has returned so far, in order
    finished,       \* next() has returned None
    refused,        \* history: the moves <<at, dir>> go() has answered with Err to next()
    \* ---- one aggregate computation (parse_sequences, then the map/sum)
    input,          \* the lines of the input text
    indirection,    \* the depth handed to compute_total_complexity
    pc,             \* position in the computation
    sequences,      \* Vec<NumpadSequence> returned by parse_sequences
    seq_idx,        \* the sequence the map is at (1-based)
    code_value,     \* local of compute_total_complexity
    table,          \* local of get_button_count: table[level][index]
    level,          \* loop variables of the table construction
    start_id,
    goal_id,
    button_count,   \* value returned by get_button_count
    complexity,     \* value returned by compute_total_complexity
    total,          \* the running sum of the complexities
    \* ---- the operational chain of keypads, explored breadth-first
    visited,        \* chain configurations reached with at most `presses` presses
    frontier,       \* those first reached with exactly `presses` presses
    presses,        \* number of human key presses so far
    \* ---- one call of GridGraph::go
    go_pad,         \* the keypad of the button
    go_button,      \* self
    go_dir,         \* dir
    go_result,      \* <<"pending">> before the call, then the Result returned
    \* ---- day06: a Map and the loop that steps it
    tiles,          \* Map::tiles, a function of <<x, y>>
    guard_pos,      \* Map::guard_pos, an Option
    map_visited,    \* Map::visited, the counter
    map_state,      \* what the last call of step returned; <<"new">> before the first
    occupied,       \* history: the tiles the guard has stood on
    \* ---- day17: a Computer and its run()
    registers,      \* Computer::registers: [reg_a, reg_b, reg_c]
    instruction_pointer,
    program,        \* Computer::program: a sequence of instructions <<name, operand>>
    output,         \* Computer::output
    fetched,        \* local `next` of run(): the instruction fetched
    count,          \* local of run(): the instructions done so far
    run_pc,         \* position in run(): "call", "loop", "returned", "panic"
    executed        \* history: the program indices of the instructions done, in order

vars == <<path_start, iter, yielded, finished, refused,
          input, indirection, pc, sequences, seq_idx, code_value, table,
          level, start_id, goal_id, button_count, complexity, total,
          visited, frontier, presses,
          go_pad, go_button, go_dir, go_result,
          tiles, guard_pos, map_visited, map_state, occupied,
          registers, instruction_pointer, program, output, fetched, count, run_pc, executed>>

pathVars == <<path_start, iter, yielded, finished, refused>>
progVars == <<input, indirection, pc, sequences, seq_idx, code_value, table,
              level, start_id, goal_id, button_count, complexity, total>>
chainVars == <<visited, frontier, presses>>
goVars == <<go_pad, go_button, go_dir, go_result>>
mapVars == <<tiles, guard_pos, map_visited, map_state, occupied>>
computerVars == <<registers, instruction_pointer, program, output, fetched, count, run_pc, executed>>

----------------------------------------------------------------------------
\* Option and Result

None == <<>>
Some(x) == <<x>>
IsSome(o) == Len(o) = 1
Unwrap(o) == o[1]

Ok(x) == <<"Ok", x>>
Err == <<"Err">>
IsOk(r) == r[1] = "Ok"
OkValue(r) == r[2]

----------------------------------------------------------------------------
\* Keypads

Directions == {"Up", "Right", "Down", "Left"}

NumpadButtons == {"ButtonA", "Button0", "Button1", "Button2", "Button3",
                  "Button4", "Button5", "Button6", "Button7", "Button8",
                  "Button9"}

DirpadButtons == {"ButtonA", "ButtonU", "ButtonR", "ButtonD", "ButtonL"}

Pads == {"num", "dir"}

Buttons(pad) == IF pad = "num" THEN NumpadButtons ELSE DirpadButtons

Numpad_go_up(b) ==
    CASE b = "ButtonA" -> Ok("Button3")
      [] b = "Button0" -> Ok("Button2")
      [] b = "Button1" -> Ok("Button4")
      [] b = "Button2" -> Ok("Button5")
      [] b = "Button3" -> Ok("Button6")
      [] b = "Button4" -> Ok("Button7")
      [] b = "Button5" -> Ok("Button8")
      [] b = "Button6" -> Ok("Button9")
      [] b = "Button7" -> Err
      [] b = "Button8" -> Err
      [] b = "Button9" -> Err

Numpad_go_right(b) ==
    CASE b = "ButtonA" -> Err
      [] b = "Button0" -> Ok("ButtonA")
      [] b = "Button1" -> Ok("Button2")
      [] b = "Button2" -> Ok("Button3")
      [] b = "Button3" -> Err
      [] b = "Button4" -> Ok("Button5")
      [] b = "Button5" -> Ok("Button6")
      [] b = "Button6" -> Err
      [] b = "Button7" -> Ok("Button8")
      [] b = "Button8" -> Ok("Button9")
      [] b = "Button9" -> Err

\* go_down with Button1 leading into the gap's cell and on to Button0.
Numpad_go_down_into_gap(b) ==
    CASE b = "ButtonA" -> Err
      [] b = "Button0" -> Err
      [] b = "Button1" -> Ok("Button0")
      [] b = "Button2" -> Ok("Button0")
      [] b = "Button3" -> Ok("ButtonA")
      [] b = "Button4" -> Ok("Button1")
      [] b = "Button5" -> Ok("Button2")
      [] b = "Button6" -> Ok("Button3")
      [] b = "Button7" -> Ok("Button4")
      [] b = "Button8" -> Ok("Button5")
      [] b = "Button9" -> Ok("Button6")

Numpad_go_down(b) ==
    CASE b = "ButtonA" -> Err
      [] b = "Button0" -> Err
      [] b = "Button1" -> Err
      [] b = "Button2" -> Ok("Button0")
      [] b = "Button3" -> Ok("ButtonA")
      [] b = "Button4" -> Ok("Button1")
      [] b = "Button5" -> Ok("Button2")
      [] b = "Button6" -> Ok("Button3")
      [] b = "Button7" -> Ok("Button4")
      [] b = "Button8" -> Ok("Button5")
      [] b = "Button9" -> Ok("Button6")

\* go_left with Button0 leading on to Button1, over the gap.
Numpad_go_left_over_gap(b) ==
    CASE b = "ButtonA" -> Ok("Button0")
      [] b = "Button0" -> Ok("Button1")
      [] b = "Button1" -> Err
      [] b = "Button2" -> Ok("Button1")
      [] b = "Button3" -> Ok("Button2")
      [] b = "Button4" -> Err
      [] b = "Button5" -> Ok("Button4")
      [] b = "Button6" -> Ok("Button5")
      [] b = "Button7" -> Err
      [] b = "Button8" -> Ok("Button7")
      [] b = "Button9" -> Ok("Button8")

Numpad_go_left(b) ==
    CASE b = "ButtonA" -> Ok("Button0")
      [] b = "Button0" -> Err
      [] b = "Button1" -> Err
      [] b = "Button2" -> Ok("Button1")
      [] b = "Button3" -> Ok("Button2")
      [] b = "Button4" -> Err
      [] b = "Button5" -> Ok("Button4")
      [] b = "Button6" -> Ok("Button5")
      [] b = "Button7" -> Err
      [] b = "Button8" -> Ok("Button7")
      [] b = "Button9" -> Ok("Button8")

Numpad_get_pos(b) ==
    CASE b = "ButtonA" -> <<2, 3>>
      [] b = "Button0" -> <<1, 3>>
      [] b = "Button1" -> <<0, 2>>
      [] b = "Button2" -> <<1, 2>>
      [] b = "Button3" -> <<2, 2>>
      [] b = "Button4" -> <<0, 1>>
      [] b = "Button5" -> <<1, 1>>
      [] b = "Button6" -> <<2, 1>>
      [] b = "Button7" -> <<0, 0>>
      [] b = "Button8" -> <<1, 0>>
      [] b = "Button9" -> <<2, 0>>

Dirpad_go_up(b) ==
    CASE b = "ButtonA" -> Err
      [] b = "ButtonU" -> Err
      [] b = "ButtonR" -> Ok("ButtonA")
      [] b = "ButtonD" -> Ok("ButtonU")
      [] b = "ButtonL" -> Err

Dirpad_go_right(b) ==
    CASE b = "ButtonA" -> Err
      [] b = "ButtonU" -> Ok("ButtonA")
      [] b = "ButtonR" -> Err
      [] b = "ButtonD" -> Ok("ButtonR")
      [] b = "ButtonL" -> Ok("ButtonD")

Dirpad_go_down(b) ==
    CASE b = "ButtonA" -> Ok("ButtonR")
      [] b = "ButtonU" -> Ok("ButtonD")
      [] b = "ButtonR" -> Err
      [] b = "ButtonD" -> Err
      [] b = "ButtonL" -> Err

\* go_left with Up leading into the gap's cell and on to Left.
Dirpad_go_left_into_gap(b) ==
    CASE b = "ButtonA" -> Ok("ButtonU")
      [] b = "ButtonU" -> Ok("ButtonL")
      [] b = "ButtonR" -> Ok("ButtonD")
      [] b = "ButtonD" -> Ok("ButtonL")
      [] b = "ButtonL" -> Err

Dirpad_go_left(b) ==
    CASE b = "ButtonA" -> Ok("ButtonU")
      [] b = "ButtonU" -> Err
      [] b = "ButtonR" -> Ok("ButtonD")
      [] b = "ButtonD" -> Ok("ButtonL")
      [] b = "ButtonL" -> Err

Dirpad_get_pos(b) ==
    CASE b = "ButtonA" -> <<2, 0>>
      [] b = "ButtonU" -> <<1, 0>>
      [] b = "ButtonR" -> <<2, 1>>
      [] b = "ButtonD" -> <<1, 1>>
      [] b = "ButtonL" -> <<0, 1>>

\* The trait's dispatch on the implementing type.
go_up(pad, b) == IF pad = "num" THEN Numpad_go_up(b) ELSE Dirpad_go_up(b)
go_right(pad, b) == IF pad = "num" THEN Numpad_go_right(b) ELSE Dirpad_go_right(b)
go_down(pad, b) == IF pad = "num" THEN Numpad_go_down(b) ELSE Dirpad_go_down(b)
go_left(pad, b) == IF pad = "num" THEN Numpad_go_left(b) ELSE Dirpad_go_left(b)
get_pos(pad, b) == IF pad = "num" THEN Numpad_get_pos(b) ELSE Dirpad_get_pos(b)

go(pad, b, dir) ==
    CASE dir = "Up" -> go_up(pad, b)
      [] dir = "Right" -> go_right(pad, b)
      [] dir = "Down" -> go_down(pad, b)
      [] dir = "Left" -> go_left(pad, b)

\* get_dirs_towards with the two arms of each comparison exchanged.
get_dirs_towards_swapped(self, goal) ==
    LET in_x == IF self[1] < goal[1] THEN Some("Left")
                ELSE IF self[1] = goal[1] THEN None ELSE Some("Right")
        in_y == IF self[2] < goal[2] THEN Some("Up")
                ELSE IF self[2] = goal[2] THEN None ELSE Some("Down")
    IN  <<in_x, in_y>>

\* Pos::get_dirs_towards: <<in_x, in_y>>, each an Option<Direction>.
get_dirs_towards(self, goal) ==
    LET sx == self[1]
        sy == self[2]
        gx == goal[1]
        gy == goal[2]
        in_x == IF sx < gx THEN Some("Right")
                ELSE IF sx = gx THEN None ELSE Some("Left")
        in_y == IF sy < gy THEN Some("Down")
                ELSE IF sy = gy THEN None ELSE Some("Up")
    IN  <<in_x, in_y>>

----------------------------------------------------------------------------
\* The path enumerator

\* iter_paths without the start node on the stack: nothing to search from.
iter_paths_unseeded(pad, self, goal) ==
    [pad |-> pad,
     stack |-> <<>>,
     infos |-> << None >>,
     goal |-> goal]

\* GridGraph::iter_paths
iter_paths(pad, self, goal) ==
    [pad |-> pad,
     stack |-> << [at |-> self, info_index |-> 0] >>,
     infos |-> << None >>,
     goal |-> goal]

\* impl From<Vec<Direction>> for DirpadSequence
DirToButton(dir) ==
    CASE dir = "Up" -> "ButtonU"
      [] dir = "Right" -> "ButtonR"
      [] dir = "Down" -> "ButtonD"
      [] dir = "Left" -> "ButtonL"

\* The conversion without the confirming ButtonA at the end.
DirpadSequence_from_unconfirmed(value) ==
    <<"ButtonA">> \o [i \in 1..Len(value) |-> DirToButton(value[i])]

DirpadSequence_from(value) ==
    <<"ButtonA">> \o [i \in 1..Len(value) |-> DirToButton(value[i])] \o <<"ButtonA">>

\* rev_dirs.reverse() left out: the moves stay in the order goal to start.
Reverse_left_out(s) == s

\* rev_dirs.reverse()
Reverse(s) == [i \in 1..Len(s) |-> s[Len(s) + 1 - i]]

\* The inner loop of next(): the directions from the node back to the start.
\* infos is indexed from 0 in the source, so entry i is infos[i + 1] here.
RECURSIVE RevDirs(_, _)
RevDirs(infos, cur_info) ==
    IF IsSome(cur_info)
    THEN LET info == Unwrap(cur_info)
         IN  <<info.dir>> \o RevDirs(infos, infos[info.prev_index + 1])
    ELSE <<>>

\* The block with prev_index taken from the last info pushed, not from the node.
PushNeighbour_last_info(it, at, info_index, in_dir) ==
    IF IsSome(in_dir) /\ IsOk(go(it.pad, at, Unwrap(in_dir)))
    THEN LET dir == Unwrap(in_dir)
             next_at == OkValue(go(it.pad, at, dir))
             path_info == [dir |-> dir, prev_index |-> Len(it.infos) - 1]
             new_infos == Append(it.infos, Some(path_info))
             next_index == Len(new_infos) - 1
         IN  [it EXCEPT !.infos = new_infos,
                        !.stack = Append(it.stack,
                                         [at |-> next_at, info_index |-> next_index])]
    ELSE it

\* One of the two "if let Some(dir) = in_x / in_y" blocks of next().
PushNeighbour(it, at, info_index, in_dir) ==
    IF IsSome(in_dir) /\ IsOk(go(it.pad, at, Unwrap(in_dir)))
    THEN LET dir == Unwrap(in_dir)
             next_at == OkValue(go(it.pad, at, dir))
             path_info == [dir |-> dir, prev_index |-> info_index]
             new_infos == Append(it.infos, Some(path_info))
             next_index == Len(new_infos) - 1
         IN  [it EXCEPT !.infos = new_infos,
                        !.stack = Append(it.stack,
                                         [at |-> next_at, info_index |-> next_index])]
    ELSE it

\* The move for which one of the two blocks of next() gets an Err from go(), if
\* it does: the block is passed over.
Refusal(it, at, in_dir) ==
    IF IsSome(in_dir) /\ ~IsOk(go(it.pad, at, Unwrap(in_dir)))
    THEN {<<at, Unwrap(in_dir)>>}
    ELSE {}

\* PathIter::next: [iter |-> the iterator afterwards, item |-> Option<DirpadSequence>,
\* refused |-> the moves for which its calls of go() returned Err]
RECURSIVE PathIter_next(_)
PathIter_next(it) ==
    IF it.stack = <<>>
    THEN [iter |-> it, item |-> None, refused |-> {}]
    ELSE LET node == it.stack[Len(it.stack)]
             popped == [it EXCEPT !.stack = SubSeq(it.stack, 1, Len(it.stack) - 1)]
         IN  IF node.at = it.goal
             THEN LET rev_dirs == RevDirs(it.infos, it.infos[node.info_index + 1])
                  IN  [iter |-> popped,
                       item |-> Some(DirpadSequence_from(Reverse(rev_dirs))),
                       refused |-> {}]
             ELSE LET at_pos == get_pos(it.pad, node.at)
                      goal_pos == get_pos(it.pad, it.goal)
                      towards == get_dirs_towards(at_pos, goal_pos)
                      after_x == PushNeighbour(popped, node.at, node.info_index, towards[1])
                      after_y == PushNeighbour(after_x, node.at, node.info_index, towards[2])
                      rest == PathIter_next(after_y)
                  IN  [rest EXCEPT !.refused = @ \cup Refusal(popped, node.at, towards[1])
                                                 \cup Refusal(popped, node.at, towards[2])]

\* Running an iterator to its end (Iterator::map(..).min(), Iterator::count):
\* the items in the order next() returns them.
RECURSIVE Drain(_)
Drain(it) ==
    LET r == PathIter_next(it)
    IN  IF IsSome(r.item) THEN <<Unwrap(r.item)>> \o Drain(r.iter) ELSE <<>>

\* impl Display for DirpadSequence: the buttons after the initial A, as characters.
DirpadButton_fmt(b) ==
    CASE b = "ButtonA" -> "A"
      [] b = "ButtonU" -> "^"
      [] b = "ButtonR" -> ">"
      [] b = "ButtonD" -> "v"
      [] b = "ButtonL" -> "<"

DirpadSequence_fmt(seq) ==
    [i \in 1..(Len(seq) - 1) |-> DirpadButton_fmt(seq[i + 1])]

----------------------------------------------------------------------------
\* Codes: parsing, display, value

\* NumpadButton::parse
NumpadButton_parse(c) ==
    CASE c = "A" -> Ok("ButtonA")
      [] c = "0" -> Ok("Button0")
      [] c = "1" -> Ok("Button1")
      [] c = "2" -> Ok("Button2")
      [] c = "3" -> Ok("Button3")
      [] c = "4" -> Ok("Button4")
      [] c = "5" -> Ok("Button5")
      [] c = "6" -> Ok("Button6")
      [] c = "7" -> Ok("Button7")
      [] c = "8" -> Ok("Button8")
      [] c = "9" -> Ok("Button9")
      [] OTHER -> Err

\* impl Display for NumpadButton
NumpadButton_fmt(b) ==
    CASE b = "ButtonA" -> "A"
      [] b = "Button0" -> "0"
      [] b = "Button1" -> "1"
      [] b = "Button2" -> "2"
      [] b = "Button3" -> "3"
      [] b = "Button4" -> "4"
      [] b = "Button5" -> "5"
      [] b = "Button6" -> "6"
      [] b = "Button7" -> "7"
      [] b = "Button8" -> "8"
      [] b = "Button9" -> "9"

\* NumpadSequence::parse: a line is a sequence of characters.
NumpadSequence_parse(line) ==
    IF \E i \in 1..Len(line) : ~IsOk(NumpadButton_parse(line[i]))
    THEN Err
    ELSE Ok(<<"ButtonA">> \o [i \in 1..Len(line) |-> OkValue(NumpadButton_parse(line[i]))])

\* impl Display for NumpadSequence: skips the initial A.
NumpadSequence_fmt(seq) ==
    [i \in 1..(Len(seq) - 1) |-> NumpadButton_fmt(seq[i + 1])]

\* str::parse::<usize> on a string of the characters Display writes: the decimal
\* value, or None when the string is empty or holds a non-digit.
DigitValue(c) ==
    CASE c = "0" -> 0 [] c = "1" -> 1 [] c = "2" -> 2 [] c = "3" -> 3 [] c = "4" -> 4
      [] c = "5" -> 5 [] c = "6" -> 6 [] c = "7" -> 7 [] c = "8" -> 8 [] c = "9" -> 9
      [] OTHER -> -1

\* The digits read from the last to the first.
RECURSIVE DecimalValue_reversed(_)
DecimalValue_reversed(s) ==
    IF s = <<>> THEN 0
    ELSE 10 * DecimalValue_reversed(Tail(s)) + DigitValue(Head(s))

RECURSIVE DecimalValue(_)
DecimalValue(s) ==
    IF s = <<>> THEN 0
    ELSE 10 * DecimalValue(SubSeq(s, 1, Len(s) - 1)) + DigitValue(s[Len(s)])

parse_usize(s) ==
    IF s = <<>> \/ \E i \in 1..Len(s) : DigitValue(s[i]) < 0
    THEN None
    ELSE Some(DecimalValue(s))

\* NumpadSequence::code_value: Some(value), or None where one of its two
\* expect() calls panics.
code_value_of(seq) ==
    LET s == NumpadSequence_fmt(seq)
    IN  IF s = <<>> \/ s[Len(s)] # "A"
        THEN None
        ELSE parse_usize(SubSeq(s, 1, Len(s) - 1))

\* parse_sequences without its filter: every piece of the split is parsed.
SelectNonEmpty_all(lines) == lines

\* parse_sequences: the lines are the pieces of input.split("\n").
RECURSIVE SelectNonEmpty(_)
SelectNonEmpty(lines) ==
    IF lines = <<>> THEN <<>>
    ELSE (IF Head(lines) = <<>> THEN <<>> ELSE <<Head(lines)>>)
         \o SelectNonEmpty(Tail(lines))

\* parse_sequences collecting the lines that parse and dropping the others.
parse_sequences_partial(lines) ==
    LET kept == SelectNonEmpty(lines)
        good == SelectSeq(kept, LAMBDA l : IsOk(NumpadSequence_parse(l)))
    IN  Ok([i \in 1..Len(good) |-> OkValue(NumpadSequence_parse(good[i]))])

parse_sequences(lines) ==
    LET kept == SelectNonEmpty(lines)
    IN  IF \E i \in 1..Len(kept) : ~IsOk(NumpadSequence_parse(kept[i]))
        THEN Err
        ELSE Ok([i \in 1..Len(kept) |-> OkValue(NumpadSequence_parse(kept[i]))])

----------------------------------------------------------------------------
\* get_button_count

ID_MAPPING == <<"ButtonA", "ButtonU", "ButtonR", "ButtonD", "ButtonL">>

START_GOAL_COMBIS == Len(ID_MAPPING) * Len(ID_MAPPING)

\* ID_MAPPING.iter().position(|&b| b == s): 0-based.
position(b) == (CHOOSE i \in 1..Len(ID_MAPPING) : ID_MAPPING[i] = b) - 1

RECURSIVE SeqSum(_)
SeqSum(s) == IF s = <<>> THEN 0 ELSE Head(s) + SeqSum(Tail(s))

\* get_path_cost over windows of three: the last pair of the path is left out.
RECURSIVE get_path_cost_short(_, _)
get_path_cost_short(path, move_cost) ==
    IF Len(path) < 3 THEN 0
    ELSE LET s_id == position(path[1])
             g_id == position(path[2])
             index == s_id * Len(ID_MAPPING) + g_id
         IN  move_cost[index] + get_path_cost_short(Tail(path), move_cost)

\* get_path_cost over the windows after the first: the move away from the
\* initial Activate is left out.
get_path_cost_skip_first(path, move_cost) ==
    IF Len(path) < 3 THEN 0
    ELSE LET rest == Tail(path)
         IN  SeqSum([i \in 1..(Len(rest) - 1) |->
                       move_cost[position(rest[i]) * Len(ID_MAPPING) + position(rest[i + 1])]])

\* get_path_cost over path.chunks(2) in the place of path.windows(2): every
\* second pair of the path is left out.
RECURSIVE get_path_cost_chunks(_, _)
get_path_cost_chunks(path, move_cost) ==
    IF Len(path) < 2 THEN 0
    ELSE LET s_id == position(path[1])
             g_id == position(path[2])
             index == s_id * Len(ID_MAPPING) + g_id
         IN  move_cost[index] + get_path_cost_chunks(Tail(Tail(path)), move_cost)

\* get_path_cost: the sum over path.windows(2) of move_cost[s_id * 5 + g_id].
RECURSIVE get_path_cost(_, _)
get_path_cost(path, move_cost) ==
    IF Len(path) < 2 THEN 0
    ELSE LET s_id == position(path[1])
             g_id == position(path[2])
             index == s_id * Len(ID_MAPPING) + g_id
         IN  move_cost[index] + get_path_cost(Tail(path), move_cost)

\* Iterator::max in the place of Iterator::min.
RECURSIVE SeqMin_max(_)
SeqMin_max(costs) ==
    IF costs = <<>> THEN None
    ELSE LET rest == SeqMin_max(Tail(costs))
         IN  IF IsSome(rest) /\ Unwrap(rest) > Head(costs)
             THEN rest
             ELSE Some(Head(costs))

\* Iterator::min over a sequence of numbers: an Option.
RECURSIVE SeqMin(_)
SeqMin(costs) ==
    IF costs = <<>> THEN None
    ELSE LET rest == SeqMin(Tail(costs))
         IN  IF IsSome(rest) /\ Unwrap(rest) < Head(costs)
             THEN rest
             ELSE Some(Head(costs))

\* Iterator::next in the place of Iterator::min: the cost of the first path.
min_cost_of_first(pad, start, goal, move_cost) ==
    LET r == PathIter_next(iter_paths(pad, start, goal))
    IN  IF IsSome(r.item) THEN Some(get_path_cost(Unwrap(r.item), move_cost)) ELSE None

\* start.iter_paths(goal).map(|path| get_path_cost(&path, move_cost)).min()
min_cost_of(pad, start, goal, move_cost) ==
    LET paths == Drain(iter_paths(pad, start, goal))
    IN  SeqMin([i \in 1..Len(paths) |-> get_path_cost(paths[i], move_cost)])

\* The table as allocated, without the loop that sets level 0 to 1.
InitialTable_zeroed(depth) ==
    [l \in 0..depth |-> [i \in 0..(START_GOAL_COMBIS - 1) |-> 0]]

\* The loop over level 0 stops one entry early: (Left, Left) stays 0.
InitialTable_short_loop(depth) ==
    [l \in 0..depth |-> [i \in 0..(START_GOAL_COMBIS - 1) |->
        IF l = 0 /\ i < START_GOAL_COMBIS - 1 THEN 1 ELSE 0]]

\* vec![[0; START_GOAL_COMBIS]; indirection + 1], then table[0][i] = 1 for i in 0..25
InitialTable(depth) ==
    [l \in 0..depth |-> [i \in 0..(START_GOAL_COMBIS - 1) |-> IF l = 0 THEN 1 ELSE 0]]

\* The map over the windows after the first: the move from the initial A is lost.
TransitionCosts_from_second(num_seq, move_cost) ==
    [i \in 1..(Len(num_seq) - 2) |->
        min_cost_of("num", num_seq[i + 1], num_seq[i + 2], move_cost)]

\* The final map reading level 0 of the table in the place of the deepest level.
TransitionCosts_level_zero(num_seq, move_cost) ==
    [i \in 1..(Len(num_seq) - 1) |->
        min_cost_of("num", num_seq[i], num_seq[i + 1], table[0])]

\* The final map over num_seq.windows(2): the per-transition minima, in order.
TransitionCosts(num_seq, move_cost) ==
    [i \in 1..(Len(num_seq) - 1) |->
        min_cost_of("num", num_seq[i], num_seq[i + 1], move_cost)]

----------------------------------------------------------------------------
\* Idle values of the groups of variables

NoIter == [pad |-> "dir", stack |-> <<>>, infos |-> <<>>, goal |-> "ButtonA"]

PathIdle ==
    /\ path_start = "ButtonA"
    /\ iter = NoIter
    /\ yielded = <<>>
    /\ finished = TRUE
    /\ refused = {}

GoIdle ==
    /\ go_pad = "dir"
    /\ go_button = "ButtonA"
    /\ go_dir = "Up"
    /\ go_result = <<"idle">>

MapIdle ==
    /\ tiles = <<>>
    /\ guard_pos = None
    /\ map_visited = 0
    /\ map_state = <<"idle">>
    /\ occupied = {}

ComputerIdle ==
    /\ registers = [reg_a |-> 0, reg_b |-> 0, reg_c |-> 0]
    /\ instruction_pointer = 0
    /\ program = <<>>
    /\ output = <<>>
    /\ fetched = <<"Halt">>
    /\ count = 0
    /\ run_pc = "idle"
    /\ executed = <<>>

ChainIdle ==
    /\ visited = {}
    /\ frontier = {}
    /\ presses = 0

ProgIdle ==
    /\ input = <<>>
    /\ indirection = 0
    /\ pc = "idle"
    /\ sequences = <<>>
    /\ seq_idx = 0
    /\ code_value = 0
    /\ table = <<>>
    /\ level = 0
    /\ start_id = 0
    /\ goal_id = 0
    /\ button_count = 0
    /\ complexity = 0
    /\ total = 0

----------------------------------------------------------------------------
\* Specification PathSpec: iter_paths on any pair of buttons of either keypad,
\* then next() until it returns None.

PathInit ==
    /\ \E pad \in Pads : \E s \in Buttons(pad), g \in Buttons(pad) :
          /\ path_start = s
          /\ iter = iter_paths(pad, s, g)
    /\ yielded = <<>>
    /\ finished = FALSE
    /\ refused = {}
    /\ ProgIdle
    /\ ChainIdle
    /\ GoIdle
    /\ MapIdle
    /\ ComputerIdle

CallNext ==
    /\ ~finished
    /\ LET r == PathIter_next(iter)
       IN  /\ iter' = r.iter
           /\ refused' = refused \cup r.refused
           /\ IF IsSome(r.item)
              THEN yielded' = Append(yielded, Unwrap(r.item)) /\ finished' = FALSE
              ELSE yielded' = yielded /\ finished' = TRUE
    /\ UNCHANGED <<path_start, progVars, chainVars, goVars, mapVars, computerVars>>

PathNext == CallNext

PathSpec == PathInit /\ [][PathNext]_vars

----------------------------------------------------------------------------
\* Specification Spec: one aggregate computation, as in run() and in
\* test_example_complexity: parse_sequences(input), then
\* sequences.iter().map(|s| compute_total_complexity(s, indirection)).sum().

MaxDigits == 1
MaxIndirection == 2

DigitChars == {"0", "1", "2", "3", "4", "5", "6", "7", "8", "9"}

\* The codes the puzzle gives: digits, then the confirm.
CodeLines == UNION {{d \o <<"A">> : d \in [1..k -> DigitChars]} : k \in 1..MaxDigits}

SampleInput ==
    << <<"0", "2", "9", "A">>,
       <<"9", "8", "0", "A">>,
       <<"1", "7", "9", "A">>,
       <<"4", "5", "6", "A">>,
       <<"3", "7", "9", "A">> >>

\* Inputs off the puzzle's format: an empty text, blank lines around a code, a
\* character that is no button (inside a code, after a code, before a code), a
\* lone confirm, a code without its confirm.
EdgeInputs ==
    { << <<>> >>,
      << <<>>, <<"5", "A">>, <<>> >>,
      << <<"1", "X", "A">> >>,
      << <<"4", "A">>, <<"x">> >>,
      << <<"1", "a">>, <<"4", "A">> >>,
      << <<"A">> >>,
      << <<"1", "2">> >> }

\* Three codes of the sample in each of their six orders.
OrderInputs == {[i \in 1..3 |-> SampleInput[p[i]]] : p \in Permutations(1..3)}

\* The same one-digit code on two lines.
RepeatInputs == {<< <<d, "A">>, <<d, "A">> >> : d \in DigitChars}

Inputs ==
    {SampleInput} \cup {<<l>> : l \in CodeLines} \cup EdgeInputs
        \cup OrderInputs \cup RepeatInputs

ProgStart(inputs) ==
    /\ input \in inputs
    /\ indirection \in 0..MaxIndirection
    /\ pc = "parse"
    /\ sequences = <<>>
    /\ seq_idx = 0
    /\ code_value = 0
    /\ table = <<>>
    /\ level = 0
    /\ start_id = 0
    /\ goal_id = 0
    /\ button_count = 0
    /\ complexity = 0
    /\ total = 0

Init == ProgStart(Inputs) /\ PathIdle /\ ChainIdle /\ GoIdle /\ MapIdle /\ ComputerIdle

\* let sequences = parse_sequences(..)?  -- an Err leaves through the ?
ParseSequences ==
    /\ pc = "parse"
    /\ LET r == parse_sequences(input)
       IN  IF IsOk(r)
           THEN /\ sequences' = OkValue(r)
                /\ seq_idx' = 1
                /\ pc' = IF OkValue(r) = <<>> THEN "done" ELSE "code_value"
           ELSE /\ pc' = "error"
                /\ UNCHANGED <<sequences, seq_idx>>
    /\ UNCHANGED <<input, indirection, code_value, table, level, start_id,
                   goal_id, button_count, complexity, total>>
    /\ UNCHANGED <<pathVars, chainVars, goVars, mapVars, computerVars>>

\* compute_total_complexity, first line: let code_value = seq.code_value();
CodeValue ==
    /\ pc = "code_value"
    /\ LET v == code_value_of(sequences[seq_idx])
       IN  IF IsSome(v)
           THEN code_value' = Unwrap(v) /\ pc' = "table"
           ELSE code_value' = code_value /\ pc' = "panic"
    /\ UNCHANGED <<input, indirection, sequences, seq_idx, table, level,
                   start_id, goal_id, button_count, complexity, total>>
    /\ UNCHANGED <<pathVars, chainVars, goVars, mapVars, computerVars>>

\* get_button_count, the allocation of the table and its level 0
InitTable ==
    /\ pc = "table"
    /\ table' = InitialTable(indirection)
    /\ level' = 1
    /\ start_id' = 0
    /\ goal_id' = 0
    /\ pc' = IF 1 <= indirection THEN "build" ELSE "sum"
    /\ UNCHANGED <<input, indirection, sequences, seq_idx, code_value,
                   button_count, complexity, total>>
    /\ UNCHANGED <<pathVars, chainVars, goVars, mapVars, computerVars>>

\* The construction loop with the level never stepping on: after the last
\* entry of a level the same level is begun again.
BuildEntry_same_level ==
    /\ pc = "build"
    /\ LET start == ID_MAPPING[start_id + 1]
           goal == ID_MAPPING[goal_id + 1]
           min_cost == min_cost_of("dir", start, goal, table[level - 1])
           index == start_id * Len(ID_MAPPING) + goal_id
       IN  /\ table' = [table EXCEPT ![level][index] = Unwrap(min_cost)]
           /\ IF goal_id + 1 < Len(ID_MAPPING)
              THEN goal_id' = goal_id + 1 /\ start_id' = start_id
              ELSE IF start_id + 1 < Len(ID_MAPPING)
              THEN goal_id' = 0 /\ start_id' = start_id + 1
              ELSE goal_id' = 0 /\ start_id' = 0
           /\ UNCHANGED <<level, pc>>
    /\ UNCHANGED <<input, indirection, sequences, seq_idx, code_value,
                   button_count, complexity, total>>
    /\ UNCHANGED <<pathVars, chainVars, goVars, mapVars, computerVars>>

\* The construction loop writing its entry into the level it reads: the level
\* below is overwritten in place.
BuildEntry_in_place ==
    /\ pc = "build"
    /\ LET start == ID_MAPPING[start_id + 1]
           goal == ID_MAPPING[goal_id + 1]
           min_cost == min_cost_of("dir", start, goal, table[level - 1])
           index == start_id * Len(ID_MAPPING) + goal_id
       IN  IF IsSome(min_cost)
           THEN /\ table' = [table EXCEPT ![level - 1][index] = Unwrap(min_cost)]
                /\ IF goal_id + 1 < Len(ID_MAPPING)
                   THEN /\ goal_id' = goal_id + 1
                        /\ UNCHANGED <<start_id, level, pc>>
                   ELSE IF start_id + 1 < Len(ID_MAPPING)
                   THEN /\ goal_id' = 0
                        /\ start_id' = start_id + 1
                        /\ UNCHANGED <<level, pc>>
                   ELSE IF level + 1 <= indirection
                   THEN /\ goal_id' = 0
                        /\ start_id' = 0
                        /\ level' = level + 1
                        /\ UNCHANGED pc
                   ELSE /\ pc' = "sum"
                        /\ UNCHANGED <<goal_id, start_id, level>>
           ELSE /\ pc' = "panic"
                /\ UNCHANGED <<table, goal_id, start_id, level>>
    /\ UNCHANGED <<input, indirection, sequences, seq_idx, code_value,
                   button_count, complexity, total>>
    /\ UNCHANGED <<pathVars, chainVars, goVars, mapVars, computerVars>>

\* The construction loop passing over the pairs with start == goal: their
\* entries are never written.
BuildEntry_skip_diagonal ==
    /\ pc = "build"
    /\ LET start == ID_MAPPING[start_id + 1]
           goal == ID_MAPPING[goal_id + 1]
           min_cost == min_cost_of("dir", start, goal, table[level - 1])
           index == start_id * Len(ID_MAPPING) + goal_id
       IN  IF IsSome(min_cost)
           THEN /\ table' = IF start = goal THEN table
                           ELSE [table EXCEPT ![level][index] = Unwrap(min_cost)]
                /\ IF goal_id + 1 < Len(ID_MAPPING)
                   THEN /\ goal_id' = goal_id + 1
                        /\ UNCHANGED <<start_id, level, pc>>
                   ELSE IF start_id + 1 < Len(ID_MAPPING)
                   THEN /\ goal_id' = 0
                        /\ start_id' = start_id + 1
                        /\ UNCHANGED <<level, pc>>
                   ELSE IF level + 1 <= indirection
                   THEN /\ goal_id' = 0
                        /\ start_id' = 0
                        /\ level' = level + 1
                        /\ UNCHANGED pc
                   ELSE /\ pc' = "sum"
                        /\ UNCHANGED <<goal_id, start_id, level>>
           ELSE /\ pc' = "panic"
                /\ UNCHANGED <<table, goal_id, start_id, level>>
    /\ UNCHANGED <<input, indirection, sequences, seq_idx, code_value,
                   button_count, complexity, total>>
    /\ UNCHANGED <<pathVars, chainVars, goVars, mapVars, computerVars>>

\* get_button_count, one pass of the innermost loop of the table construction
BuildEntry ==
    /\ pc = "build"
    /\ LET start == ID_MAPPING[start_id + 1]
           goal == ID_MAPPING[goal_id + 1]
           min_cost == min_cost_of("dir", start, goal, table[level - 1])
           index == start_id * Len(ID_MAPPING) + goal_id
       IN  IF IsSome(min_cost)
           THEN /\ table' = [table EXCEPT ![level][index] = Unwrap(min_cost)]
                /\ IF goal_id + 1 < Len(ID_MAPPING)
                   THEN /\ goal_id' = goal_id + 1
                        /\ UNCHANGED <<start_id, level, pc>>
                   ELSE IF start_id + 1 < Len(ID_MAPPING)
                   THEN /\ goal_id' = 0
                        /\ start_id' = start_id + 1
                        /\ UNCHANGED <<level, pc>>
                   ELSE IF level + 1 <= indirection
                   THEN /\ goal_id' = 0
                        /\ start_id' = 0
                        /\ level' = level + 1
                        /\ UNCHANGED pc
                   ELSE /\ pc' = "sum"
                        /\ UNCHANGED <<goal_id, start_id, level>>
           ELSE /\ pc' = "panic"
                /\ UNCHANGED <<table, goal_id, start_id, level>>
    /\ UNCHANGED <<input, indirection, sequences, seq_idx, code_value,
                   button_count, complexity, total>>
    /\ UNCHANGED <<pathVars, chainVars, goVars, mapVars, computerVars>>

\* The final sum added to the count of the call before: state kept between calls.
SumTransitions_carry ==
    /\ pc = "sum"
    /\ LET costs == TransitionCosts(sequences[seq_idx], table[indirection])
       IN  IF \A i \in 1..Len(costs) : IsSome(costs[i])
           THEN /\ button_count' = button_count
                                      + SeqSum([i \in 1..Len(costs) |-> Unwrap(costs[i])])
                /\ pc' = "mult"
           ELSE /\ pc' = "panic"
                /\ UNCHANGED button_count
    /\ table' = <<>>
    /\ level' = 0
    /\ start_id' = 0
    /\ goal_id' = 0
    /\ UNCHANGED <<input, indirection, sequences, seq_idx, code_value,
                   complexity, total>>
    /\ UNCHANGED <<pathVars, chainVars, goVars, mapVars, computerVars>>

\* The table outliving the call: it is still there when the next code begins.
SumTransitions_keep_table ==
    /\ pc = "sum"
    /\ LET costs == TransitionCosts(sequences[seq_idx], table[indirection])
       IN  IF \A i \in 1..Len(costs) : IsSome(costs[i])
           THEN /\ button_count' = SeqSum([i \in 1..Len(costs) |-> Unwrap(costs[i])])
                /\ pc' = "mult"
           ELSE /\ pc' = "panic"
                /\ UNCHANGED button_count
    /\ UNCHANGED <<table, level, start_id, goal_id>>
    /\ UNCHANGED <<input, indirection, sequences, seq_idx, code_value,
                   complexity, total>>
    /\ UNCHANGED <<pathVars, chainVars, goVars, mapVars, computerVars>>

\* get_button_count, the final sum over num_seq.windows(2)
SumTransitions ==
    /\ pc = "sum"
    /\ LET costs == TransitionCosts(sequences[seq_idx], table[indirection])
       IN  IF \A i \in 1..Len(costs) : IsSome(costs[i])
           THEN /\ button_count' = SeqSum([i \in 1..Len(costs) |-> Unwrap(costs[i])])
                /\ pc' = "mult"
           ELSE /\ pc' = "panic"
                /\ UNCHANGED button_count
    \* the locals go out of scope at the return
    /\ table' = <<>>
    /\ level' = 0
    /\ start_id' = 0
    /\ goal_id' = 0
    /\ UNCHANGED <<input, indirection, sequences, seq_idx, code_value,
                   complexity, total>>
    /\ UNCHANGED <<pathVars, chainVars, goVars, mapVars, computerVars>>

\* compute_total_complexity with a sum in the place of the product.
Multiply_added ==
    /\ pc = "mult"
    /\ complexity' = code_value + button_count
    /\ pc' = "acc"
    /\ UNCHANGED <<input, indirection, sequences, seq_idx, code_value, table,
                   level, start_id, goal_id, button_count, total>>
    /\ UNCHANGED <<pathVars, chainVars, goVars, mapVars, computerVars>>

\* compute_total_complexity, last line: code_value * button_count
Multiply ==
    /\ pc = "mult"
    /\ complexity' = code_value * button_count
    /\ pc' = "acc"
    /\ UNCHANGED <<input, indirection, sequences, seq_idx, code_value, table,
                   level, start_id, goal_id, button_count, total>>
    /\ UNCHANGED <<pathVars, chainVars, goVars, mapVars, computerVars>>

\* The sum keeps the last value only.
Accumulate_overwrite ==
    /\ pc = "acc"
    /\ total' = complexity
    /\ IF seq_idx < Len(sequences)
       THEN seq_idx' = seq_idx + 1 /\ pc' = "code_value"
       ELSE seq_idx' = seq_idx /\ pc' = "done"
    /\ UNCHANGED <<input, indirection, sequences, code_value, table, level,
                   start_id, goal_id, button_count, complexity>>
    /\ UNCHANGED <<pathVars, chainVars, goVars, mapVars, computerVars>>

\* .sum() takes the value of the map and the map moves on to the next sequence
Accumulate ==
    /\ pc = "acc"
    /\ total' = total + complexity
    /\ IF seq_idx < Len(sequences)
       THEN seq_idx' = seq_idx + 1 /\ pc' = "code_value"
       ELSE seq_idx' = seq_idx /\ pc' = "done"
    /\ UNCHANGED <<input, indirection, sequences, code_value, table, level,
                   start_id, goal_id, button_count, complexity>>
    /\ UNCHANGED <<pathVars, chainVars, goVars, mapVars, computerVars>>

ProgNext ==
    \/ ParseSequences
    \/ CodeValue
    \/ InitTable
    \/ BuildEntry
    \/ SumTransitions
    \/ Multiply
    \/ Accumulate

Next == ProgNext

Spec == Init /\ [][Next]_vars

----------------------------------------------------------------------------
\* Specification TermSpec: the enumerations of PathSpec and runs of Spec, each
\* driven on while it has a step to take. The caller of next() (count,
\* min) calls until None; run() is straight-line code around its loops.

\* One code, and two codes on two lines: the table is built once and twice.
TermInputs == { << <<"5", "A">> >>, << <<"0", "A">>, <<"8", "A">> >> }

TermInit ==
    \/ PathInit
    \/ ProgStart(TermInputs) /\ PathIdle /\ ChainIdle /\ GoIdle /\ MapIdle /\ ComputerIdle

TermNext == CallNext \/ ProgNext

\* CallNext and ProgNext are guarded by finished and pc alone: the rest of
\* each is an assignment to the primed variables that changes one of them.
CanCallNext == pc = "idle" /\ ~finished

CanStep == pc \in {"parse", "code_value", "table", "build", "sum", "mult", "acc"}

\* Weak fairness of CallNext and of ProgNext, WF_vars(A) written out as
\* []<>~ENABLED <<A>>_vars \/ []<><<A>>_vars with the guard for ENABLED.
TermFairness ==
    /\ ([]<>(~CanCallNext) \/ []<><<CallNext>>_vars)
    /\ ([]<>(~CanStep) \/ []<><<ProgNext>>_vars)

TermSpec == TermInit /\ [][TermNext]_vars /\ TermFairness

----------------------------------------------------------------------------
\* Specification FanOutSpec: the body of the innermost construction loop
\* applied to the entries of a level in other orders than row-major, as by
\* workers that each take one entry; a level is begun when the level below is
\* whole. An entry is unwritten while it is 0.

\* how many unwritten entries a worker may pass over
MaxAhead == 1

Unwritten == {i \in 0..(START_GOAL_COMBIS - 1) : table[level][i] = 0}

\* the first MaxAhead + 1 unwritten entries of the level, in row-major order
Window == {i \in Unwritten : Cardinality({j \in Unwritten : j < i}) <= MaxAhead}

FanOutInit ==
    /\ input = << <<"0", "A">> >>
    /\ indirection \in 1..MaxIndirection
    /\ sequences = OkValue(parse_sequences(input))
    /\ seq_idx = 1
    /\ code_value = 0
    /\ table = InitialTable(indirection)
    /\ level = 1
    /\ start_id = 0
    /\ goal_id = 0
    /\ pc = "build"
    /\ button_count = 0
    /\ complexity = 0
    /\ total = 0
    /\ PathIdle /\ ChainIdle /\ GoIdle /\ MapIdle /\ ComputerIdle

\* A worker reading the level of the user, whatever level it writes.
WorkerEntry_level_zero(index) ==
    /\ pc = "build"
    /\ index \in Window
    /\ LET start == ID_MAPPING[(index \div Len(ID_MAPPING)) + 1]
           goal == ID_MAPPING[(index % Len(ID_MAPPING)) + 1]
           min_cost == min_cost_of("dir", start, goal, table[0])
       IN  /\ table' = [table EXCEPT ![level][index] = Unwrap(min_cost)]
           /\ IF Unwritten # {index}
              THEN UNCHANGED <<level, pc>>
              ELSE IF level + 1 <= indirection
              THEN level' = level + 1 /\ UNCHANGED pc
              ELSE pc' = "sum" /\ UNCHANGED level
    /\ UNCHANGED <<input, indirection, sequences, seq_idx, code_value, start_id,
                   goal_id, button_count, complexity, total>>
    /\ UNCHANGED <<pathVars, chainVars, goVars, mapVars, computerVars>>

\* The loop body for the entry `index` of the level under construction
WorkerEntry(index) ==
    /\ pc = "build"
    /\ index \in Window
    /\ LET start == ID_MAPPING[(index \div Len(ID_MAPPING)) + 1]
           goal == ID_MAPPING[(index % Len(ID_MAPPING)) + 1]
           min_cost == min_cost_of("dir", start, goal, table[level - 1])
       IN  /\ table' = [table EXCEPT ![level][index] = Unwrap(min_cost)]
           /\ IF Unwritten # {index}
              THEN UNCHANGED <<level, pc>>
              ELSE IF level + 1 <= indirection
              THEN level' = level + 1 /\ UNCHANGED pc
              ELSE pc' = "sum" /\ UNCHANGED level
    /\ UNCHANGED <<input, indirection, sequences, seq_idx, code_value, start_id,
                   goal_id, button_count, complexity, total>>
    /\ UNCHANGED <<pathVars, chainVars, goVars, mapVars, computerVars>>

FanOutNext == \E index \in 0..(START_GOAL_COMBIS - 1) : WorkerEntry(index)

FanOutSpec == FanOutInit /\ [][FanOutNext]_vars

----------------------------------------------------------------------------
\* Specification GoSpec: one call of go on any button of either keypad, in any
\* direction.

GoInit ==
    /\ go_pad \in Pads
    /\ go_button \in Buttons(go_pad)
    /\ go_dir \in Directions
    /\ go_result = <<"pending">>
    /\ PathIdle
    /\ ProgIdle
    /\ ChainIdle
    /\ MapIdle
    /\ ComputerIdle

\* self.go(dir)
CallGo ==
    /\ go_result = <<"pending">>
    /\ go_result' = go(go_pad, go_button, go_dir)
    /\ UNCHANGED <<go_pad, go_button, go_dir, pathVars, progVars, chainVars, mapVars,
                   computerVars>>

GoNext == CallGo

GoSpec == GoInit /\ [][GoNext]_vars

----------------------------------------------------------------------------
\* day06: the guard's patrol. Tiles are <<"Empty">>, <<"Visited", v>>,
\* <<"Obstacle">> and <<"Guard", dir, v>>, v a Visited record; tiles[y + 1][x + 1]
\* is the source's self.tiles[y][x].

\* impl TryFrom<char> for Direction
Direction_try_from(c) ==
    CASE c = "^" -> Ok("Up")
      [] c = ">" -> Ok("Right")
      [] c = "v" -> Ok("Down")
      [] c = "<" -> Ok("Left")
      [] OTHER -> Err

\* Direction::looking_at: checked_sub gives None at 0.
looking_at(self, x, y) ==
    CASE self = "Up" -> IF y = 0 THEN None ELSE Some(<<x, y - 1>>)
      [] self = "Right" -> Some(<<x + 1, y>>)
      [] self = "Down" -> Some(<<x, y + 1>>)
      [] self = "Left" -> IF x = 0 THEN None ELSE Some(<<x - 1, y>>)

\* Guard::turn
Guard_turn(dir) ==
    CASE dir = "Up" -> "Right"
      [] dir = "Right" -> "Down"
      [] dir = "Down" -> "Left"
      [] dir = "Left" -> "Up"

\* Visited::new
Visited_new(dir) ==
    [up |-> dir = "Up", right |-> dir = "Right", down |-> dir = "Down", left |-> dir = "Left"]

\* impl BitOr for Visited
Visited_bitor(self, rhs) ==
    [up |-> self.up \/ rhs.up, right |-> self.right \/ rhs.right,
     down |-> self.down \/ rhs.down, left |-> self.left \/ rhs.left]

\* Map::new, the tile of one character
Tile_of_char(c) ==
    CASE c = "." -> <<"Empty">>
      [] c = "#" -> <<"Obstacle">>
      [] c \in {"^", ">", "v", "<"} ->
            <<"Guard", OkValue(Direction_try_from(c)), Visited_new(OkValue(Direction_try_from(c)))>>

\* Map::new with the counter begun at 0: the start tile is not counted.
Map_new_uncounted(rows) ==
    LET guards == {<<x, y>> \in (0..(Len(rows[1]) - 1)) \X (0..(Len(rows) - 1)) :
                      rows[y + 1][x + 1] \in {"^", ">", "v", "<"}}
    IN  [tiles |-> [y \in 1..Len(rows) |-> [x \in 1..Len(rows[y]) |-> Tile_of_char(rows[y][x])]],
         guard_pos |-> IF guards = {} THEN None ELSE Some(CHOOSE g \in guards : TRUE),
         visited |-> 0]

\* Map::new on the rows of the text: the tiles, the guard's place, visited = 1.
Map_new(rows) ==
    LET guards == {<<x, y>> \in (0..(Len(rows[1]) - 1)) \X (0..(Len(rows) - 1)) :
                      rows[y + 1][x + 1] \in {"^", ">", "v", "<"}}
    IN  [tiles |-> [y \in 1..Len(rows) |-> [x \in 1..Len(rows[y]) |-> Tile_of_char(rows[y][x])]],
         guard_pos |-> IF guards = {} THEN None ELSE Some(CHOOSE g \in guards : TRUE),
         visited |-> 1]

\* Map::next_pos for a guard that is on the map
next_pos(t, gp) ==
    IF ~IsSome(gp) THEN None
    ELSE LET x == Unwrap(gp)[1]
             y == Unwrap(gp)[2]
             tile == t[y + 1][x + 1]
         IN  IF tile[1] # "Guard" THEN None
             ELSE LET looking == looking_at(tile[2], x, y)
                  IN  IF ~IsSome(looking) THEN None
                      ELSE IF Unwrap(looking)[2] < Len(t) /\ Unwrap(looking)[1] < Len(t[1])
                           THEN looking
                           ELSE None

\* self.tiles[y][x] = tile
SetTile(t, x, y, tile) == [t EXCEPT ![y + 1][x + 1] = tile]

----------------------------------------------------------------------------
\* Specification MapSpec: Map::new on a text, then step() until Complete, as
\* in test_visited.

MapSide == 2
MaxObstacles == 1

\* The example map of the puzzle.
ExampleMap ==
    << <<".", ".", ".", ".", "#", ".", ".", ".", ".", ".">>,
       <<".", ".", ".", ".", ".", ".", ".", ".", ".", "#">>,
       <<".", ".", ".", ".", ".", ".", ".", ".", ".", ".">>,
       <<".", ".", "#", ".", ".", ".", ".", ".", ".", ".">>,
       <<".", ".", ".", ".", ".", ".", ".", "#", ".", ".">>,
       <<".", ".", ".", ".", ".", ".", ".", ".", ".", ".">>,
       <<".", "#", ".", ".", "^", ".", ".", ".", ".", ".">>,
       <<".", ".", ".", ".", ".", ".", ".", ".", "#", ".">>,
       <<"#", ".", ".", ".", ".", ".", ".", ".", ".", ".">>,
       <<".", ".", ".", ".", ".", ".", "#", ".", ".", ".">> >>

\* A corridor in which the guard turns twice and walks back over its tiles.
CorridorMap ==
    << <<".", "#", ".", ".">>,
       <<".", "^", ".", "#">>,
       <<".", ".", "#", ".">> >>

\* Every square map of side MapSide with one guard, in any place and
\* direction, and at most MaxObstacles obstacles.
SmallMaps ==
    LET cells == (1..MapSide) \X (1..MapSide)
        grounds == {g \in [cells -> {".", "#"}] :
                       Cardinality({c \in cells : g[c] = "#"}) <= MaxObstacles}
    IN  {[y \in 1..MapSide |-> [x \in 1..MapSide |->
              IF <<x, y>> = at THEN d ELSE g[<<x, y>>]]] :
            g \in grounds, at \in cells, d \in {"^", ">", "v", "<"}}

Maps == {ExampleMap, CorridorMap} \cup SmallMaps

MapInit ==
    /\ \E rows \in Maps :
          LET m == Map_new(rows)
          IN  /\ tiles = m.tiles
              /\ guard_pos = m.guard_pos
              /\ map_visited = m.visited
              /\ occupied = {Unwrap(m.guard_pos)}
    /\ map_state = <<"new">>
    /\ PathIdle
    /\ ProgIdle
    /\ ChainIdle
    /\ GoIdle
    /\ ComputerIdle

\* map.step(), called while the last call returned Ongoing
Step ==
    /\ map_state \in {<<"new">>, <<"Ongoing">>}
    /\ IF ~IsSome(guard_pos)
       THEN /\ map_state' = <<"Complete">>
            /\ UNCHANGED <<tiles, guard_pos, map_visited, occupied>>
       ELSE LET cur_x == Unwrap(guard_pos)[1]
                cur_y == Unwrap(guard_pos)[2]
                cur == tiles[cur_y + 1][cur_x + 1]
                guard == cur[2]
                cur_visited == cur[3]
                np == next_pos(tiles, guard_pos)
            IN  IF cur[1] # "Guard"
                THEN /\ map_state' = <<"unreachable">>
                     /\ UNCHANGED <<tiles, guard_pos, map_visited, occupied>>
                ELSE IF ~IsSome(np)
                THEN /\ tiles' = SetTile(tiles, cur_x, cur_y,
                                         <<"Visited", Visited_bitor(cur_visited, Visited_new(guard))>>)
                     /\ guard_pos' = None
                     /\ map_state' = <<"Complete">>
                     /\ UNCHANGED <<map_visited, occupied>>
                ELSE LET next_x == Unwrap(np)[1]
                         next_y == Unwrap(np)[2]
                         next_tile == tiles[next_y + 1][next_x + 1]
                     IN  CASE next_tile[1] = "Empty" ->
                                /\ map_visited' = map_visited + 1
                                /\ tiles' = SetTile(SetTile(tiles, cur_x, cur_y, <<"Visited", cur_visited>>),
                                                    next_x, next_y, <<"Guard", guard, Visited_new(guard)>>)
                                /\ guard_pos' = np
                                /\ occupied' = occupied \cup {Unwrap(np)}
                                /\ map_state' = <<"Ongoing">>
                           [] next_tile[1] = "Visited" ->
                                /\ tiles' = SetTile(SetTile(tiles, cur_x, cur_y, <<"Visited", cur_visited>>),
                                                    next_x, next_y,
                                                    <<"Guard", guard,
                                                      Visited_bitor(next_tile[2], Visited_new(guard))>>)
                                /\ guard_pos' = np
                                /\ occupied' = occupied \cup {Unwrap(np)}
                                /\ map_state' = <<"Ongoing">>
                                /\ UNCHANGED map_visited
                           [] next_tile[1] = "Obstacle" ->
                                /\ tiles' = SetTile(tiles, cur_x, cur_y,
                                                    <<"Guard", Guard_turn(guard),
                                                      Visited_bitor(cur_visited, Visited_new(Guard_turn(guard)))>>)
                                /\ map_state' = <<"Ongoing">>
                                /\ UNCHANGED <<guard_pos, map_visited, occupied>>
                           [] next_tile[1] = "Guard" ->
                                /\ map_state' = <<"unreachable">>
                                /\ UNCHANGED <<tiles, guard_pos, map_visited, occupied>>
    /\ UNCHANGED <<pathVars, progVars, chainVars, goVars, computerVars>>

MapNext == Step

MapSpec == MapInit /\ [][MapNext]_vars

----------------------------------------------------------------------------
\* day17: the three-bit computer. An instruction is <<name, operand>>, Halt is
\* <<"Halt">>; registers are usize, 64 bits wide.

USIZE_BITS == 64

RECURSIVE Pow2(_)
Pow2(n) == IF n = 0 THEN 1 ELSE 2 * Pow2(n - 1)

\* a ^ b on unsigned integers
RECURSIVE BitXor(_, _)
BitXor(a, b) ==
    IF a = 0 THEN b
    ELSE IF b = 0 THEN a
    ELSE (((a % 2) + (b % 2)) % 2) + 2 * BitXor(a \div 2, b \div 2)

\* Computer::parse, from the numbers of the program line on: chunks(2) with a
\* chunk of one number left out, then the match on the opcode.
Instruction_of(opcode, operand) ==
    CASE opcode = 0 -> Ok(<<"Adv", operand>>)
      [] opcode = 1 -> Ok(<<"Bxl", operand>>)
      [] opcode = 2 -> Ok(<<"Bst", operand>>)
      [] opcode = 3 -> Ok(<<"Jnz", operand>>)
      [] opcode = 4 -> Ok(<<"Bxc", operand>>)
      [] opcode = 5 -> Ok(<<"Out", operand>>)
      [] opcode = 6 -> Ok(<<"Bdv", operand>>)
      [] opcode = 7 -> Ok(<<"Cdv", operand>>)
      [] OTHER -> Err

Computer_parse(reg_a, reg_b, reg_c, numbers) ==
    LET chunks == [i \in 1..(Len(numbers) \div 2) |->
                      Instruction_of(numbers[2 * i - 1], numbers[2 * i])]
    IN  IF \E i \in 1..Len(chunks) : ~IsOk(chunks[i])
        THEN Err
        ELSE Ok([registers |-> [reg_a |-> reg_a, reg_b |-> reg_b, reg_c |-> reg_c],
                 instruction_pointer |-> 0,
                 program |-> [i \in 1..Len(chunks) |-> OkValue(chunks[i])],
                 output |-> <<>>])

\* next_instruction with the pointer moved on by one number, not by two
next_instruction_by_one(ip, prog) ==
    LET index == ip \div 2
    IN  [instruction |-> IF index < Len(prog) THEN prog[index + 1] ELSE <<"Halt">>,
         instruction_pointer |-> ip + 1]

\* Computer::next_instruction: [instruction, instruction_pointer afterwards]
next_instruction(ip, prog) ==
    LET index == ip \div 2
    IN  [instruction |-> IF index < Len(prog) THEN prog[index + 1] ELSE <<"Halt">>,
         instruction_pointer |-> ip + 2]

\* Computer::get_combo_value: None where it panics (7, or an operand over 7)
get_combo_value(regs, operand) ==
    CASE operand \in 0..3 -> Some(operand)
      [] operand = 4 -> Some(regs.reg_a)
      [] operand = 5 -> Some(regs.reg_b)
      [] operand = 6 -> Some(regs.reg_c)
      [] OTHER -> None

\* num / 2usize.pow(val as u32): None where pow overflows (a panic in a debug
\* build; a zero and a division by it, a panic too, in a release build)
\* The registers of the model stay under 2^31, where `val as u32` is val and
\* a division by 2^31 or more gives 0.
DivPow2(num, val) ==
    IF val >= USIZE_BITS THEN None
    ELSE IF val >= 31 THEN Some(0)
    ELSE Some(num \div Pow2(val))

\* Computer::do_instruction on the registers, pointer and output: Some of the
\* three afterwards, None for a panic.
do_instruction(regs, ip, out, instruction) ==
    LET name == instruction[1]
        op == instruction[2]
        val == get_combo_value(regs, op)
        Done(r, p, o) == Some([registers |-> r, instruction_pointer |-> p, output |-> o])
        Divided(field) ==
            IF ~IsSome(val) \/ ~IsSome(DivPow2(regs.reg_a, Unwrap(val)))
            THEN None
            ELSE Done([regs EXCEPT ![field] = Unwrap(DivPow2(regs.reg_a, Unwrap(val)))], ip, out)
    IN  CASE name = "Adv" -> Divided("reg_a")
          [] name = "Bxl" -> Done([regs EXCEPT !.reg_b = BitXor(regs.reg_b, op)], ip, out)
          [] name = "Bst" -> IF IsSome(val)
                             THEN Done([regs EXCEPT !.reg_b = Unwrap(val) % 8], ip, out)
                             ELSE None
          [] name = "Jnz" -> IF regs.reg_a # 0 THEN Done(regs, op, out) ELSE Done(regs, ip, out)
          [] name = "Bxc" -> Done([regs EXCEPT !.reg_b = BitXor(regs.reg_b, regs.reg_c)], ip, out)
          [] name = "Out" -> IF IsSome(val)
                             THEN Done(regs, ip, Append(out, Unwrap(val) % 8))
                             ELSE None
          [] name = "Bdv" -> Divided("reg_b")
          [] name = "Cdv" -> Divided("reg_c")
          [] name = "Halt" -> Done(regs, ip, out)

ASSERT_LIMIT == 1000000

\* the exploration stops run() after this many instructions
MaxCount == 32

ExampleComputer == [reg_a |-> 729, reg_b |-> 0, reg_c |-> 0, numbers |-> <<0, 1, 5, 4, 3, 0>>]
SecondComputer == [reg_a |-> 2024, reg_b |-> 0, reg_c |-> 0, numbers |-> <<0, 3, 5, 4, 3, 0>>]

\* every program of one instruction (opcodes 8 and 9 do not parse), a program
\* with a number left over, and one with a jump to an odd pointer
RegisterValues == {0, 9, 729}
SingleComputers ==
    { [reg_a |-> a, reg_b |-> 1, reg_c |-> 6, numbers |-> <<opcode, operand>>] :
        a \in RegisterValues, opcode \in 0..9, operand \in 0..9 }
OddComputers ==
    { [reg_a |-> a, reg_b |-> 1, reg_c |-> 6, numbers |-> n] :
        a \in RegisterValues, n \in { <<5, 1, 3>>, <<3, 3, 5, 4, 0, 1>> } }
ComputerInputs == {ExampleComputer, SecondComputer} \cup SingleComputers \cup OddComputers

ComputerInit ==
    /\ \E c \in ComputerInputs :
         LET parsed == Computer_parse(c.reg_a, c.reg_b, c.reg_c, c.numbers)
         IN  IF IsOk(parsed)
             THEN /\ registers = OkValue(parsed).registers
                  /\ instruction_pointer = OkValue(parsed).instruction_pointer
                  /\ program = OkValue(parsed).program
                  /\ output = OkValue(parsed).output
                  /\ run_pc = "parsed"
             ELSE /\ registers = [reg_a |-> 0, reg_b |-> 0, reg_c |-> 0]
                  /\ instruction_pointer = 0
                  /\ program = <<>>
                  /\ output = <<>>
                  /\ run_pc = "parse_error"
    /\ fetched = <<"Halt">>
    /\ count = 0
    /\ executed = <<>>
    /\ PathIdle /\ ProgIdle /\ ChainIdle /\ GoIdle /\ MapIdle

\* run(), up to the loop: the first fetch
RunCall ==
    /\ run_pc = "parsed"
    /\ LET next == next_instruction(instruction_pointer, program)
       IN  /\ fetched' = next.instruction
           /\ instruction_pointer' = next.instruction_pointer
    /\ count' = 0
    /\ run_pc' = "loop"
    /\ UNCHANGED <<registers, program, output, executed>>
    /\ UNCHANGED <<pathVars, progVars, chainVars, goVars, mapVars>>

\* run(), one turn of the loop: the assertion, do_instruction and the next
\* fetch. `executed` records what was done and the registers it was done on.
RunStep ==
    /\ run_pc = "loop"
    /\ fetched # <<"Halt">>
    /\ count < MaxCount
    /\ IF count >= ASSERT_LIMIT
       THEN /\ run_pc' = "panic"
            /\ UNCHANGED <<registers, instruction_pointer, output, fetched, count, executed>>
       ELSE LET done == do_instruction(registers, instruction_pointer, output, fetched)
            IN  IF ~IsSome(done)
                THEN /\ run_pc' = "panic"
                     /\ count' = count + 1
                     /\ UNCHANGED <<registers, instruction_pointer, output, fetched, executed>>
                ELSE LET next == next_instruction(Unwrap(done).instruction_pointer, program)
                     IN  /\ registers' = Unwrap(done).registers
                         /\ output' = Unwrap(done).output
                         /\ fetched' = next.instruction
                         /\ instruction_pointer' = next.instruction_pointer
                         /\ count' = count + 1
                         /\ executed' = Append(executed,
                                [index |-> (instruction_pointer - 2) \div 2,
                                 instruction |-> fetched,
                                 registers |-> registers])
                         /\ run_pc' = "loop"
    /\ UNCHANGED program
    /\ UNCHANGED <<pathVars, progVars, chainVars, goVars, mapVars>>

\* run(), the loop left on Halt: the output is returned
RunReturn ==
    /\ run_pc = "loop"
    /\ fetched = <<"Halt">>
    /\ run_pc' = "returned"
    /\ UNCHANGED <<registers, instruction_pointer, program, output, fetched, count, executed>>
    /\ UNCHANGED <<pathVars, progVars, chainVars, goVars, mapVars>>

ComputerNext == RunCall \/ RunStep \/ RunReturn

CanRun == run_pc = "parsed" \/ (run_pc = "loop" /\ (fetched = <<"Halt">> \/ count < MaxCount))

\* run() is one call: once made it goes on to its return, its panic or for ever
ComputerFairness == []<>(~CanRun) \/ []<><<ComputerNext>>_vars

ComputerSpec == ComputerInit /\ [][ComputerNext]_vars /\ ComputerFairness

----------------------------------------------------------------------------
\* Geometry of the keypads, as the claims speak of it: cells, distance, gap.

Abs(n) == IF n < 0 THEN 0 - n ELSE n

Manhattan(p, q) == Abs(p[1] - q[1]) + Abs(p[2] - q[2])

Delta(dir) ==
    CASE dir = "Up" -> <<0, -1>>
      [] dir = "Right" -> <<1, 0>>
      [] dir = "Down" -> <<0, 1>>
      [] dir = "Left" -> <<-1, 0>>

ButtonCells(pad) == {get_pos(pad, b) : b \in Buttons(pad)}

\* The smallest rectangle holding every button, and its one cell without a button.
GridCells(pad) ==
    {c \in (0..3) \X (0..3) :
        /\ \E p \in ButtonCells(pad) : c[1] <= p[1]
        /\ \E p \in ButtonCells(pad) : c[2] <= p[2]}

Gap(pad) == CHOOSE c \in GridCells(pad) : c \notin ButtonCells(pad)

\* The cell reached from p by the first i moves of dirs.
RECURSIVE CellAfter(_, _, _)
CellAfter(p, dirs, i) ==
    IF i = 0 THEN p
    ELSE LET q == CellAfter(p, dirs, i - 1)
             d == Delta(dirs[i])
         IN  <<q[1] + d[1], q[2] + d[2]>>

\* dirs walks from cell p to cell q over button cells only, each move one
\* cell nearer to q.
IsMonotoneWalk(pad, p, q, dirs) ==
    /\ CellAfter(p, dirs, Len(dirs)) = q
    /\ \A i \in 1..Len(dirs) :
          /\ CellAfter(p, dirs, i) \in ButtonCells(pad)
          /\ Manhattan(CellAfter(p, dirs, i), q)
                = Manhattan(CellAfter(p, dirs, i - 1), q) - 1

MonotoneWalks(pad, p, q) ==
    {dirs \in [1..Manhattan(p, q) -> Directions] : IsMonotoneWalk(pad, p, q, dirs)}

\* The moves of a returned sequence: what lies between its two ButtonA.
ButtonToDir(b) ==
    CASE b = "ButtonU" -> "Up"
      [] b = "ButtonR" -> "Right"
      [] b = "ButtonD" -> "Down"
      [] b = "ButtonL" -> "Left"
      [] OTHER -> "None"

MovesOf(seq) == [i \in 1..(Len(seq) - 2) |-> ButtonToDir(seq[i + 1])]

IsFramed(seq) ==
    /\ Len(seq) >= 2
    /\ seq[1] = "ButtonA"
    /\ seq[Len(seq)] = "ButtonA"
    /\ \A i \in 1..Len(MovesOf(seq)) : MovesOf(seq)[i] \in Directions

\* The two axis orderings between two cells: all of one axis, then the other.
Repeat(x, n) == [i \in 1..n |-> x]

XDir(p, q) == IF p[1] < q[1] THEN "Right" ELSE "Left"
YDir(p, q) == IF p[2] < q[2] THEN "Down" ELSE "Up"

HorizontalFirst(p, q) ==
    Repeat(XDir(p, q), Abs(p[1] - q[1])) \o Repeat(YDir(p, q), Abs(p[2] - q[2]))

VerticalFirst(p, q) ==
    Repeat(YDir(p, q), Abs(p[2] - q[2])) \o Repeat(XDir(p, q), Abs(p[1] - q[1]))

CrossesGap(pad, p, dirs) ==
    \E i \in 1..Len(dirs) : CellAfter(p, dirs, i) = Gap(pad)

Yielded == {yielded[i] : i \in 1..Len(yielded)}

StartPos == get_pos(iter.pad, path_start)
GoalPos == get_pos(iter.pad, iter.goal)

\* Exactly one of the two axis orderings of the pair passes over the gap.
GapCase ==
    CrossesGap(iter.pad, StartPos, HorizontalFirst(StartPos, GoalPos))
        # CrossesGap(iter.pad, StartPos, VerticalFirst(StartPos, GoalPos))

GapFreeOrdering ==
    IF CrossesGap(iter.pad, StartPos, HorizontalFirst(StartPos, GoalPos))
    THEN VerticalFirst(StartPos, GoalPos)
    ELSE HorizontalFirst(StartPos, GoalPos)

GapCrossingOrdering ==
    IF CrossesGap(iter.pad, StartPos, HorizontalFirst(StartPos, GoalPos))
    THEN HorizontalFirst(StartPos, GoalPos)
    ELSE VerticalFirst(StartPos, GoalPos)

----------------------------------------------------------------------------
\* Specification ChainSpec: the operational chain the keystroke counts are about.
\* A human presses keys of a directional keypad; that keypad steers the arm of
\* the first of `indirection` robots, each standing at a directional keypad
\* that steers the next arm; the last keypad steers the arm at the numeric
\* keypad. Every arm starts on Activate. A move key moves the steered arm one
\* cell and may not take it off the buttons; Activate makes the steered arm
\* press the button it is on. The computation of the count for one code runs
\* first; then the configurations are explored breadth-first, one human press
\* per step, until one is found in which the whole code has been typed.

ButtonAt(pad, cell) == CHOOSE b \in Buttons(pad) : get_pos(pad, b) = cell

\* The arm on button b of keypad pad is told to move in direction dir.
MoveArm(pad, b, dir) ==
    LET p == get_pos(pad, b)
        c == <<p[1] + Delta(dir)[1], p[2] + Delta(dir)[2]>>
    IN  IF c \in ButtonCells(pad) THEN Some(ButtonAt(pad, c)) ELSE None

\* Arms 1..depth are on directional keypads, arm depth + 1 on the numeric one.
\* `key` is pressed on the keypad that steers arm i; `code` is what the numeric
\* arm has to press. None where the press is not allowed: an arm would leave
\* the buttons, or the numeric arm would press a button the code does not
\* have next.
RECURSIVE PressKey(_, _, _, _)
PressKey(cfg, i, key, code) ==
    LET depth == Len(cfg.arms)
    IN  IF key = "ButtonA"
        THEN IF i = depth + 1
             THEN IF cfg.typed < Len(code) /\ code[cfg.typed + 1] = cfg.num
                  THEN Some([cfg EXCEPT !.typed = cfg.typed + 1])
                  ELSE None
             ELSE PressKey(cfg, i + 1, cfg.arms[i], code)
        ELSE IF i = depth + 1
             THEN LET m == MoveArm("num", cfg.num, ButtonToDir(key))
                  IN  IF IsSome(m) THEN Some([cfg EXCEPT !.num = Unwrap(m)]) ELSE None
             ELSE LET m == MoveArm("dir", cfg.arms[i], ButtonToDir(key))
                  IN  IF IsSome(m) THEN Some([cfg EXCEPT !.arms[i] = Unwrap(m)]) ELSE None

InitialConfig(depth) ==
    [arms |-> [i \in 1..depth |-> "ButtonA"], num |-> "ButtonA", typed |-> 0]

\* What the numeric arm has to press for a NumpadSequence: all but its initial A.
ToType(num_seq) == Tail(num_seq)

ChainInputs == {<<l>> : l \in CodeLines \cup {SampleInput[i] : i \in 1..Len(SampleInput)}}

ChainInit ==
    /\ ProgStart(ChainInputs)
    /\ PathIdle
    /\ GoIdle
    /\ MapIdle
    /\ ComputerIdle
    /\ visited = {InitialConfig(indirection)}
    /\ frontier = {InitialConfig(indirection)}
    /\ presses = 0

Typed == {c \in frontier : c.typed = Len(ToType(sequences[1]))}

\* One more human key press, from every configuration first reached by the
\* presses so far.
BfsStep ==
    /\ pc = "done"
    /\ frontier # {}
    /\ Typed = {}
    /\ LET code == ToType(sequences[1])
           next == {PressKey(c, 1, k, code) : c \in frontier, k \in DirpadButtons}
           new == {Unwrap(o) : o \in {n \in next : IsSome(n)}} \ visited
       IN  /\ frontier' = new
           /\ visited' = visited \cup new
    /\ presses' = presses + 1
    /\ UNCHANGED <<pathVars, progVars, goVars, mapVars, computerVars>>

ChainNext == ProgNext \/ BfsStep

ChainSpec == ChainInit /\ [][ChainNext]_vars

----------------------------------------------------------------------------
\* Claims about the enumerator, checked under PathSpec.

\* C5 as stated: for every ordered pair of buttons of either keypad, iter_paths
\* returns at least 1 and at most 2 sequences.
C5_AtMostTwo ==
    /\ Len(yielded) <= 2
    /\ finished => Len(yielded) >= 1

\* C5, amended: for every ordered pair of buttons the enumerator returns at
\* least 1 sequence, at most 2 on the directional keypad and at most 9 on the
\* numeric keypad.
C5_CountBounds ==
    /\ Len(yielded) <= (IF iter.pad = "dir" THEN 2 ELSE 9)
    /\ finished => Len(yielded) >= 1

\* Numeric Activate -> 7 has been enumerated to the end: 9 sequences.
C5_Witness ==
    /\ finished
    /\ iter.pad = "num"
    /\ path_start = "ButtonA"
    /\ iter.goal = "Button7"
    /\ Len(yielded) = 9

\* C6 as stated: when one of the two axis orderings would pass through the
\* gap, the enumerator returns exactly one sequence, the ordering that does
\* not cross the gap.
C6_ExactlyOne ==
    (finished /\ GapCase) =>
        yielded = << DirpadSequence_from(GapFreeOrdering) >>

\* C6, amended: when one of the two axis orderings would pass through the gap,
\* the enumerator returns the ordering that does not cross the gap, exactly
\* once, never returns the gap-crossing ordering nor any sequence over the gap,
\* and may return further gap-avoiding sequences.
C6_GapOrderingExcluded ==
    GapCase =>
        /\ DirpadSequence_from(GapCrossingOrdering) \notin Yielded
        /\ \A i \in 1..Len(yielded) :
              /\ IsFramed(yielded[i])
              /\ ~CrossesGap(iter.pad, StartPos, MovesOf(yielded[i]))
        /\ finished =>
              Cardinality({i \in 1..Len(yielded) :
                  yielded[i] = DirpadSequence_from(GapFreeOrdering)}) = 1

\* Numeric Activate -> 1 has been enumerated to the end: the gap-free ordering
\* and one more sequence.
C6_Witness ==
    /\ finished
    /\ GapCase
    /\ iter.pad = "num"
    /\ path_start = "ButtonA"
    /\ iter.goal = "Button1"
    /\ Len(yielded) = 2
    /\ DirpadSequence_from(<<"Up", "Left", "Left">>) \in Yielded

\* C7: iter_paths from numeric Activate to numeric 1 yields exactly 2
\* sequences, and for every pair the enumerator yields each in-grid,
\* gap-avoiding sequence of axis-reducing moves from start to goal exactly
\* once: none missing, none twice, nothing else.
C7_AllMonotoneWalksOnce ==
    /\ \A i \in 1..Len(yielded) :
          /\ IsFramed(yielded[i])
          /\ MovesOf(yielded[i]) \in MonotoneWalks(iter.pad, StartPos, GoalPos)
          /\ \A j \in 1..Len(yielded) : yielded[i] = yielded[j] => i = j
    /\ finished =>
          /\ \A w \in MonotoneWalks(iter.pad, StartPos, GoalPos) :
                DirpadSequence_from(w) \in Yielded
          /\ (iter.pad = "num" /\ path_start = "ButtonA" /\ iter.goal = "Button1")
                => Len(yielded) = 2

\* A pair with six walks, all enumerated: numeric 7 -> 3.
C7_Witness ==
    /\ finished
    /\ iter.pad = "num"
    /\ path_start = "Button7"
    /\ iter.goal = "Button3"
    /\ Len(yielded) = 6
    /\ Cardinality(MonotoneWalks("num", StartPos, GoalPos)) = 6

\* C8: every sequence returned for (X, Y) holds, after the implicit initial
\* Activate, as many presses as the Manhattan distance between the positions
\* of X and Y plus one: the moves and the trailing confirm.
C8_LengthIsManhattanPlusOne ==
    \A i \in 1..Len(yielded) :
        /\ yielded[i][1] = "ButtonA"
        /\ Len(DirpadSequence_fmt(yielded[i])) = Manhattan(StartPos, GoalPos) + 1

\* The farthest pair, numeric Activate -> 7, with two of its sequences
\* returned: five moves and a confirm each.
C8_Witness ==
    /\ iter.pad = "num"
    /\ path_start = "ButtonA"
    /\ iter.goal = "Button7"
    /\ Len(yielded) >= 2
    /\ Len(DirpadSequence_fmt(yielded[1])) = 6
    /\ Len(DirpadSequence_fmt(yielded[2])) = 6

\* C9: when start equals goal the enumerator returns exactly one sequence, a
\* single Activate press with no movement, whose cost at level 0 is 1.
C9_StartIsGoal ==
    (path_start = iter.goal) =>
        /\ \A i \in 1..Len(yielded) :
              /\ yielded[i] = <<"ButtonA", "ButtonA">>
              /\ DirpadSequence_fmt(yielded[i]) = <<"A">>
              /\ get_path_cost(yielded[i], InitialTable(0)[0]) = 1
        /\ Len(yielded) <= 1
        /\ finished => Len(yielded) = 1

C9_Witness ==
    /\ finished
    /\ iter.pad = "num"
    /\ path_start = "Button5"
    /\ iter.goal = "Button5"
    /\ Len(yielded) = 1

----------------------------------------------------------------------------
\* Claims about the cost computation, checked under Spec.

Code029A == <<"ButtonA", "Button0", "Button2", "Button9", "ButtonA">>
Code379A == <<"ButtonA", "Button3", "Button7", "Button9", "ButtonA">>

AtSequence(code) ==
    /\ seq_idx \in 1..Len(sequences)
    /\ sequences[seq_idx] = code

\* C1: for the sample 029A, 980A, 179A, 456A, 379A, the sum of
\* compute_total_complexity(code, 2) over the codes parse_sequences produces is
\* exactly 126384.
C1_SampleTotal ==
    (pc = "done" /\ input = SampleInput /\ indirection = 2) =>
        /\ Len(sequences) = 5
        /\ total = 126384

C1_Witness ==
    /\ pc = "done"
    /\ input = SampleInput
    /\ indirection = 2
    /\ seq_idx = 5

\* C3: code 029A at indirection depth 2 takes exactly 68 keystrokes and its
\* complexity is 29 x 68 = 1972.
C3_Code029A ==
    (indirection = 2 /\ AtSequence(Code029A)) =>
        /\ pc \in {"mult", "acc"} => button_count = 68
        /\ pc = "acc" => (code_value = 29 /\ complexity = 1972)

C3_Witness ==
    /\ indirection = 2
    /\ AtSequence(Code029A)
    /\ pc = "acc"
    /\ complexity = 1972

\* C4: code 379A at indirection depth 2 takes exactly 64 keystrokes and its
\* complexity is 379 x 64 = 24256.
C4_Code379A ==
    (indirection = 2 /\ AtSequence(Code379A)) =>
        /\ pc \in {"mult", "acc"} => button_count = 64
        /\ pc = "acc" => (code_value = 379 /\ complexity = 24256)

C4_Witness ==
    /\ indirection = 2
    /\ AtSequence(Code379A)
    /\ pc = "acc"
    /\ complexity = 24256

\* The table entry of an ordered pair of directional buttons.
Entry(t, x, y) == t[position(x) * 5 + position(y)]

\* The sum of the entries of t over the consecutive pairs of path.
RECURSIVE PairSum(_, _, _)
PairSum(path, t, n) ==
    IF n = 0 THEN 0
    ELSE PairSum(path, t, n - 1) + Entry(t, path[n], path[n + 1])

\* Entry (x, y) of level l has been written by the construction under way.
Written(l, x, y) ==
    /\ pc \in {"build", "sum"}
    /\ l \in 1..indirection
    /\ \/ pc = "sum"
       \/ l < level
       \/ l = level /\ position(x) < start_id
       \/ l = level /\ position(x) = start_id /\ position(y) < goal_id

EnumeratedFor(x, y) ==
    LET paths == Drain(iter_paths("dir", x, y)) IN {paths[i] : i \in 1..Len(paths)}

\* C10: for every level L >= 1 and every ordered pair (X, Y) of the 5
\* directional buttons, table[L][X,Y] is the minimum, over the sequences the
\* enumerator returns for (X, Y) on the directional keypad, of the sum of
\* table[L-1][p] over the consecutive pairs p of (Activate, moves.., Activate).
C10_BuildRecurrence ==
    \A l \in 1..indirection, x \in DirpadButtons, y \in DirpadButtons :
        Written(l, x, y) =>
            LET sums == {PairSum(path, table[l - 1], Len(path) - 1) :
                            path \in EnumeratedFor(x, y)}
            IN  /\ Entry(table[l], x, y) \in sums
                /\ \A c \in sums : Entry(table[l], x, y) <= c

\* Level 2 is complete, and its entry for Activate -> Left is below the cost of
\* one of the two enumerated sequences.
C10_Witness ==
    /\ pc = "sum"
    /\ indirection = 2
    /\ \E path \in EnumeratedFor("ButtonA", "ButtonL") :
          Entry(table[2], "ButtonA", "ButtonL")
             < PairSum(path, table[1], Len(path) - 1)

----------------------------------------------------------------------------
\* Claims about the count and the operational chain, checked under ChainSpec.

\* C2: for every well-formed code and every indirection depth,
\* get_button_count(code, depth) is the length of the shortest sequence of
\* human key presses that makes the numeric robot press the code's buttons in
\* order: no configuration with the code typed is reached by fewer presses,
\* and one is reached by exactly that many.
C2_CountIsShortestHumanSequence ==
    pc = "done" =>
        /\ presses <= button_count
        /\ presses < button_count => (frontier # {} /\ Typed = {})
        /\ presses = button_count => Typed # {}

\* 379A through two robots: typed after 64 presses, not before.
C2_Witness ==
    /\ pc = "done"
    /\ indirection = 2
    /\ sequences = <<Code379A>>
    /\ presses = 64
    /\ button_count = 64
    /\ Typed # {}

----------------------------------------------------------------------------
\* Claims about the levels of the table, checked under Spec.

\* The table of get_button_count is allocated.
TableLive == pc \in {"build", "sum"}

\* C11: the level-0 table holds cost exactly 1 for each of the 25 ordered
\* pairs of directional buttons, whatever the pair, and keeps it while the
\* levels above are built.
C11_LevelZeroAllOne ==
    TableLive =>
        /\ DOMAIN table[0] = 0..24
        /\ \A x \in DirpadButtons, y \in DirpadButtons : Entry(table[0], x, y) = 1

\* Two levels have been built above level 0, and (Left, Left) still costs 1.
C11_Witness ==
    /\ pc = "sum"
    /\ indirection = 2
    /\ Entry(table[0], "ButtonL", "ButtonL") = 1
    /\ Entry(table[2], "ButtonL", "ButtonL") = 1
    /\ Entry(table[2], "ButtonA", "ButtonL") > 1

\* C12: monotonicity in depth: for every ordered pair (X, Y) of directional
\* buttons and every level L >= 0 with level L + 1 written, table[L+1][X,Y] >=
\* table[L][X,Y].
C12_MonotoneInDepth ==
    \A l \in 0..(indirection - 1), x \in DirpadButtons, y \in DirpadButtons :
        Written(l + 1, x, y) =>
            Entry(table[l + 1], x, y) >= Entry(table[l], x, y)

\* Both cases at once: (Activate, Left) grows 1, 4, 10 and (Up, Up) stays 1.
C12_Witness ==
    /\ pc = "sum"
    /\ indirection = 2
    /\ Entry(table[0], "ButtonA", "ButtonL") = 1
    /\ Entry(table[1], "ButtonA", "ButtonL") = 4
    /\ Entry(table[2], "ButtonA", "ButtonL") = 10
    /\ Entry(table[1], "ButtonU", "ButtonU") = Entry(table[2], "ButtonU", "ButtonU")

----------------------------------------------------------------------------
\* Claims about the cost, the complexity and the aggregate, checked under Spec.

\* The button a character of a code stands for.
ButtonOfChar(c) == IF c = "A" THEN "ButtonA" ELSE "Button" \o c

\* The lines of the input that hold a code, in order.
CodesOf(lines) == SelectSeq(lines, LAMBDA l : l # <<>>)

\* The numeric-keypad transition cost of (x, y) under the table level t: the
\* least sum of t over the consecutive pairs of an enumerated sequence.
NumericTransitionCost(x, y, t) ==
    LET paths == Drain(iter_paths("num", x, y))
        sums == {PairSum(paths[i], t, Len(paths[i]) - 1) : i \in 1..Len(paths)}
    IN  CHOOSE c \in sums : \A d \in sums : c <= d

\* The sum of the numeric transition costs over (Activate, c1), (c1, c2), ..,
\* (c(n-1), cn) for the buttons c1..cn of a code.
RECURSIVE CodeCost(_, _, _)
CodeCost(from, buttons, t) ==
    IF buttons = <<>> THEN 0
    ELSE NumericTransitionCost(from, Head(buttons), t)
            + CodeCost(Head(buttons), Tail(buttons), t)

\* C13: the cost get_button_count returns for a code is the sum, over the
\* consecutive pairs (Activate, c1), (c1, c2), .., (c(n-1), cn) of the code's
\* buttons including the trailing confirm, of the numeric-keypad transition
\* cost, each the minimum over the numeric enumerator's sequences of the summed
\* directional costs of the deepest level's table, table[indirection].
C13_CostIsSumOfNumericTransitions ==
    [][(pc = "sum" /\ pc' = "mult") =>
          LET line == CodesOf(input)[seq_idx]
              buttons == [i \in 1..Len(line) |-> ButtonOfChar(line[i])]
          IN  button_count' = CodeCost("ButtonA", buttons, table[indirection])]_vars

\* 980A through two robots has been costed: 60 presses.
C13_Witness ==
    /\ pc = "mult"
    /\ indirection = 2
    /\ sequences[seq_idx] = <<"ButtonA", "Button9", "Button8", "Button0", "ButtonA">>
    /\ button_count = 60

\* The digits of a code: its characters without the trailing confirm.
DigitsOf(line) == SubSeq(line, 1, Len(line) - 1)

\* The digit a character writes.
DigitOf(c) == (CHOOSE n \in 1..10 : <<"0", "1", "2", "3", "4", "5", "6", "7", "8", "9">>[n] = c) - 1

RECURSIVE Pow10(_)
Pow10(n) == IF n = 0 THEN 1 ELSE 10 * Pow10(n - 1)

\* The digits read as a base-10 integer: digit i of n weighs 10^(n - i).
ValueOf(line) ==
    LET ds == DigitsOf(line)
        weighted == {<<i, DigitOf(ds[i]) * Pow10(Len(ds) - i)>> : i \in 1..Len(ds)}
        sum[S \in SUBSET weighted] ==
            IF S = {} THEN 0
            ELSE LET e == CHOOSE e \in S : TRUE IN e[2] + sum[S \ {e}]
    IN  sum[weighted]

\* C14: complexity(code) = value(code) x cost(code), where value(code) is the
\* code's digits without the trailing confirm read as a base-10 integer
\* (leading zeros contribute nothing) and cost(code) is the count returned by
\* get_button_count.
C14_ComplexityIsValueTimesCost ==
    pc = "acc" =>
        /\ code_value = ValueOf(CodesOf(input)[seq_idx])
        /\ complexity = ValueOf(CodesOf(input)[seq_idx]) * button_count

\* 029A at depth 1: value 29 for all its leading zero, cost 28, complexity 812.
C14_Witness ==
    /\ pc = "acc"
    /\ indirection = 1
    /\ CodesOf(input)[seq_idx] = <<"0", "2", "9", "A">>
    /\ code_value = 29
    /\ button_count = 28
    /\ complexity = 812

\* The directional-keypad transition cost of (x, y) under the table level t.
DirectionalTransitionCost(x, y, t) ==
    LET sums == {PairSum(path, t, Len(path) - 1) : path \in EnumeratedFor(x, y)}
    IN  CHOOSE c \in sums : \A d \in sums : c <= d

\* The level built from the level t below it: a function of t alone.
LevelFrom(t) ==
    [i \in 0..24 |->
        DirectionalTransitionCost(ID_MAPPING[(i \div 5) + 1], ID_MAPPING[(i % 5) + 1], t)]

\* Level l of the table for any code: level 0 is all 1.
RECURSIVE LevelTable(_)
LevelTable(l) == IF l = 0 THEN [i \in 0..24 |-> 1] ELSE LevelFrom(LevelTable(l - 1))

\* complexity(code) at a depth, from the code and the depth alone.
ComplexityOf(line, depth) ==
    ValueOf(line)
        * CodeCost("ButtonA", [i \in 1..Len(line) |-> ButtonOfChar(line[i])], LevelTable(depth))

\* The sum of f over a set of indices, whatever the order they are taken in.
RECURSIVE SumOver(_, _)
SumOver(S, f) ==
    IF S = {} THEN 0
    ELSE LET i == CHOOSE i \in S : TRUE IN f[i] + SumOver(S \ {i}, f)

\* C15: the aggregate for a depth is the sum of complexity(code) over all
\* input codes, and each code's contribution depends only on that code and
\* the depth (not on its place or on the codes before it), so the aggregate
\* of an input is that of each reordering of its lines.
C15_AggregateIsOrderFreeSum ==
    LET codes == CodesOf(input)
        contribution == [i \in 1..Len(codes) |-> ComplexityOf(codes[i], indirection)]
    IN  /\ pc = "acc" => complexity = contribution[seq_idx]
        /\ pc = "acc" => total = SumOver(1..(seq_idx - 1), contribution)
        /\ pc = "done" => total = SumOver(1..Len(codes), contribution)
        /\ pc = "code_value" => (table = <<>> /\ level = 0 /\ start_id = 0 /\ goal_id = 0)

\* 179A, 029A, 980A in an order that is not the sample's: 12172 + 1972 + 58800.
C15_Witness ==
    /\ pc = "done"
    /\ indirection = 2
    /\ input = <<SampleInput[3], SampleInput[1], SampleInput[2]>>
    /\ total = 72944

----------------------------------------------------------------------------
\* Claims about the keypad graph, checked under GoSpec.

\* The cell next to get_pos(b) in direction d.
AdjacentCell(pad, b, d) ==
    <<get_pos(pad, b)[1] + Delta(d)[1], get_pos(pad, b)[2] + Delta(d)[2]>>

\* C16: for every button b and direction d on either keypad, go(b, d) returns
\* Ok(c) exactly when button c sits at the cell adjacent to get_pos(b) in
\* direction d, and returns an error exactly when that cell is the gap or
\* outside the grid (numeric gap left of 0, directional gap above Left); no two
\* buttons of a keypad share a position.
C16_MoveContract ==
    go_result \in {Ok(c) : c \in Buttons(go_pad)} \cup {Err} =>
        LET cell == AdjacentCell(go_pad, go_button, go_dir)
        IN  /\ \A c \in Buttons(go_pad) :
                  go_result = Ok(c) <=> get_pos(go_pad, c) = cell
            /\ go_result = Err <=> (cell = Gap(go_pad) \/ cell \notin GridCells(go_pad))
            /\ Gap("num") = AdjacentCell("num", "Button0", "Left")
            /\ Gap("dir") = AdjacentCell("dir", "ButtonL", "Up")
            /\ Cardinality(GridCells(go_pad) \ ButtonCells(go_pad)) = 1
            /\ \A b1 \in Buttons(go_pad), b2 \in Buttons(go_pad) :
                  get_pos(go_pad, b1) = get_pos(go_pad, b2) => b1 = b2

\* Left of the numeric 0 is the gap: go answers with the error.
C16_Witness ==
    /\ go_pad = "num"
    /\ go_button = "Button0"
    /\ go_dir = "Left"
    /\ AdjacentCell(go_pad, go_button, go_dir) = Gap("num")
    /\ go_result = Err

----------------------------------------------------------------------------
\* Claims about the inputs off the format, checked under Spec.

\* The input holds a zero-length code: an empty line.
HasEmptyLine == \E i \in 1..Len(input) : input[i] = <<>>

\* The input with its empty lines taken out.
WithoutEmptyLines == CodesOf(input)

HasBadChar ==
    \E i \in 1..Len(input) : \E j \in 1..Len(input[i]) :
        input[i][j] \notin DigitChars \cup {"A"}

\* C18: a code containing any character that is not one of 0-9 or A is
\* rejected at parsing with a parse error: parse_sequences returns the error
\* and no list of codes (no partial result), so no cost is ever computed for a
\* malformed code, nor for the codes on the lines around it; and the parse
\* error is returned for no other input.
C18_MalformedCodeRejected ==
    /\ HasBadChar =>
            /\ pc \in {"parse", "error"}
            /\ sequences = <<>>
            /\ table = <<>>
            /\ code_value = 0
            /\ button_count = 0
            /\ complexity = 0
            /\ total = 0
    /\ pc = "error" => HasBadChar

\* A well-formed code on the first line, a bad character on the second: the
\* run has ended with the error and nothing is kept of the first line.
C18_Witness ==
    /\ input = << <<"4", "A">>, <<"x">> >>
    /\ pc = "error"
    /\ sequences = <<>>
    /\ total = 0

----------------------------------------------------------------------------
\* A claim about the enumerator's use of the keypad graph, checked under PathSpec.

\* C19 as stated: an attempt by the enumerator to traverse into the gap or off
\* the grid fails fast and is never silently recovered from: a call of next()
\* in which go() refused a move does not return normally, neither with a
\* sequence nor with the end of the enumeration.
C19_RefusalFailsFast ==
    [][refused' # refused => (yielded' = yielded /\ ~finished')]_vars

\* C19, amended: a move into the gap makes go() return an error value, not a
\* panic, and next() passes the move over and carries on with the search: the
\* enumeration still ends with at least one sequence, every sequence it returns
\* stays on button cells, and the only moves ever refused lead into the gap
\* (the enumerator never attempts a move off the grid).
C19_RefusedMoveIsPassedOver ==
    /\ \A a \in refused :
          /\ go(iter.pad, a[1], a[2]) = Err
          /\ AdjacentCell(iter.pad, a[1], a[2]) = Gap(iter.pad)
    /\ \A i \in 1..Len(yielded) :
          \A k \in 0..Len(MovesOf(yielded[i])) :
              CellAfter(StartPos, MovesOf(yielded[i]), k) \in ButtonCells(iter.pad)
    /\ finished => Len(yielded) >= 1

\* Numeric Activate -> 1: the move left of 0 has been refused, and the
\* enumeration has gone on to its end with two sequences.
C19_Witness ==
    /\ iter.pad = "num"
    /\ path_start = "ButtonA"
    /\ iter.goal = "Button1"
    /\ refused = {<<"Button0", "Left">>}
    /\ finished
    /\ Len(yielded) = 2

----------------------------------------------------------------------------
\* A claim about repeated builds of the table, checked under Spec.

\* Level l of the table under construction has just been completed, or the
\* whole table has.
LevelComplete(l) ==
    /\ TableLive
    /\ l \in 0..indirection
    /\ \/ pc = "sum"
       \/ pc = "build" /\ l = level - 1 /\ start_id = 0 /\ goal_id = 0

\* C20: table construction is idempotent and deterministic: at every build
\* (for the first code of the input or for a later one) a level L, when it is
\* completed and when the table is read, is the same 25-entry matrix, a function of the level L - 1 below it and of
\* nothing else, and two runs of get_button_count on the same code and depth
\* return the same value: on an input that holds a code twice the second
\* complexity equals the first.
C20_BuildsRepeat ==
    /\ \A l \in 0..indirection :
          LevelComplete(l) =>
              /\ DOMAIN table[l] = 0..24
              /\ l >= 1 => table[l] = LevelFrom(table[l - 1])
              /\ table[l] = LevelTable(l)
    /\ (pc = "acc" /\ seq_idx = 2 /\ sequences[1] = sequences[2]) =>
            complexity = total

\* 5A twice through two robots: the second run has returned what the first did.
C20_Witness ==
    /\ input = << <<"5", "A">>, <<"5", "A">> >>
    /\ indirection = 2
    /\ pc = "acc"
    /\ seq_idx = 2
    /\ button_count > 0
    /\ complexity = 5 * button_count
    /\ complexity = total

----------------------------------------------------------------------------
\* A claim about termination, checked under TermSpec.

\* C21: for every requested depth and every pair of buttons, path enumeration
\* exhausts (next() returns None with the DFS stack empty, after finitely many
\* calls, every node on the stack being nearer to the goal by one cell per
\* move made to reach it) and table construction, once begun, finishes, with
\* exactly the levels 1..depth built above level 0.
C21_Terminates ==
    /\ (pc = "idle" /\ ~finished) ~> (finished /\ iter.stack = <<>>)
    /\ [](pc = "idle" =>
            \A k \in 1..Len(iter.stack) :
                LET node == iter.stack[k]
                    moves == Len(RevDirs(iter.infos, iter.infos[node.info_index + 1]))
                IN  Manhattan(get_pos(iter.pad, node.at), GoalPos)
                        = Manhattan(StartPos, GoalPos) - moves)
    /\ (pc = "table") ~> (pc = "sum")
    /\ [](pc = "build" => level \in 1..indirection)
    /\ [](pc = "sum" =>
            /\ DOMAIN table = 0..indirection
            /\ \A l \in 1..indirection : \A i \in 0..24 : table[l][i] >= 1)

\* Numeric 7 -> 3 has been enumerated to its end: six sequences, then None
\* with nothing left on the stack.
C21_Witness ==
    /\ iter.pad = "num"
    /\ path_start = "Button7"
    /\ iter.goal = "Button3"
    /\ finished
    /\ iter.stack = <<>>
    /\ Len(yielded) = 6

----------------------------------------------------------------------------
\* A claim about the guard's patrol (day06), checked under MapSpec.

\* The tiles that show a trace of the guard: the guard itself or a visit.
TracedTiles ==
    {<<x, y>> \in (0..(Len(tiles[1]) - 1)) \X (0..(Len(tiles) - 1)) :
        tiles[y + 1][x + 1][1] \in {"Guard", "Visited"}}

\* The map is the example map, walked or not.
OnExampleMap == Len(tiles) = 10 /\ tiles[1][5] = <<"Obstacle">> /\ tiles[10][7] = <<"Obstacle">>

\* C22: at every call of Map::step from the parsed map on, and so when it
\* returns Complete, the visited counter is the number of distinct tiles the
\* guard has occupied, the start tile included (41 for the example map):
\* re-entering an already visited tile or turning at an obstacle leaves the
\* counter as it is, since neither adds a tile.
C22_VisitedCountsDistinctTiles ==
    map_state # <<"idle">> =>
        /\ map_state \in {<<"new">>, <<"Ongoing">>, <<"Complete">>}
        /\ map_visited = Cardinality(occupied)
        /\ occupied = TracedTiles
        /\ (map_state = <<"Complete">> /\ OnExampleMap) => map_visited = 41

\* The example map walked to its end: 41 tiles, one of them crossed both ways.
C22_Witness ==
    /\ map_state = <<"Complete">>
    /\ OnExampleMap
    /\ map_visited = 41
    /\ Cardinality(occupied) = 41
    /\ \E p \in occupied :
          LET v == tiles[p[2] + 1][p[1] + 1][2]
          IN  (v.up \/ v.down) /\ (v.left \/ v.right)

----------------------------------------------------------------------------
\* day17: the run of the computer

ComboOf(regs, operand) ==
    CASE operand = 4 -> regs.reg_a
      [] operand = 5 -> regs.reg_b
      [] operand = 6 -> regs.reg_c
      [] OTHER -> operand

\* the values the Out instructions of a history print, in the order done
RECURSIVE OutValues(_)
OutValues(history) ==
    IF history = <<>> THEN <<>>
    ELSE LET e == Head(history)
         IN  (IF e.instruction[1] = "Out"
              THEN <<ComboOf(e.registers, e.instruction[2]) % 8>>
              ELSE <<>>) \o OutValues(Tail(history))

\* the index the pointer stood at when `fetched` was fetched
FetchIndex == (instruction_pointer - 2) \div 2

JumpTaken(e) == e.instruction[1] = "Jnz" /\ e.registers.reg_a # 0

InitialRegisters == IF executed = <<>> THEN registers ELSE executed[1].registers

OnExampleComputer ==
    /\ program = << <<"Adv", 1>>, <<"Out", 4>>, <<"Jnz", 0>> >>
    /\ InitialRegisters = [reg_a |-> 729, reg_b |-> 0, reg_c |-> 0]

ExampleOutput == <<4, 6, 3, 5, 6, 3, 5, 2, 1, 0>>

\* C23: run executes the instructions in the order of the instruction pointer
\* (what is fetched is the instruction at pointer / 2, and the next one done is
\* the one after it), except that a Jnz done with register A nonzero sets the
\* pointer to its literal operand; run returns exactly when the pointer
\* indexes past the last instruction; the output is the values of the Out
\* instructions (combo operand mod 8) in the order they were done; and for
\* A=729, B=0, C=0 and the program 0,1,5,4,3,0 run returns 4,6,3,5,6,3,5,2,1,0.
C23_RunFollowsPointer ==
    /\ [](run_pc = "loop" =>
            fetched = IF FetchIndex \in 0..(Len(program) - 1)
                      THEN program[FetchIndex + 1] ELSE <<"Halt">>)
    /\ [](run_pc \in {"loop", "returned", "panic"} =>
            /\ \A k \in 1..Len(executed) :
                   /\ executed[k].index < Len(program)
                   /\ executed[k].instruction = program[executed[k].index + 1]
            /\ executed # <<>> => executed[1].index = 0
            /\ \A k \in 1..(Len(executed) - 1) :
                   executed[k + 1].index =
                       IF JumpTaken(executed[k])
                       THEN executed[k].instruction[2] \div 2
                       ELSE executed[k].index + 1
            /\ output = OutValues(executed))
    /\ [][(run_pc = "loop" /\ run_pc' = "loop") =>
            instruction_pointer' =
                (IF fetched[1] = "Jnz" /\ registers.reg_a # 0
                 THEN fetched[2] ELSE instruction_pointer) + 2]_vars
    /\ [][run_pc = "loop" =>
            (run_pc' = "returned" <=> FetchIndex >= Len(program))]_vars
    /\ [](run_pc = "returned" => FetchIndex >= Len(program))
    /\ [](run_pc = "returned" /\ OnExampleComputer => output = ExampleOutput)
    /\ (run_pc = "parsed" /\ OnExampleComputer) ~> (run_pc = "returned")

C23_Witness ==
    /\ run_pc = "returned"
    /\ OnExampleComputer
    /\ output = ExampleOutput
    /\ Len(executed) = 30
    /\ JumpTaken(executed[3])
    /\ ~JumpTaken(executed[30])
    /\ FetchIndex = 3

----------------------------------------------------------------------------
\* The order and the frame of the table construction, checked under Spec.

BuildIndex == start_id * 5 + goal_id

\* C24: the levels are built in the order 1, 2, ..., depth, each in row-major
\* order; a step of the construction writes the one entry it is at, which was
\* not written before (every entry is written exactly once), with a value
\* computed from the level below alone; it leaves every other entry of every
\* level as it was, so that a completed level is never modified; and the steps
\* after the construction do not write to the table, which is dropped whole
\* when get_button_count returns.
C24_LevelOrderAndFrame ==
    /\ [][pc = "table" => level' = 1 /\ start_id' = 0 /\ goal_id' = 0]_vars
    /\ [][pc = "build" =>
            /\ level \in 1..indirection
            /\ pc' \in {"build", "sum"}
            /\ \A l \in 0..indirection : \A i \in 0..24 :
                   IF l = level /\ i = BuildIndex
                   THEN /\ table[l][i] = 0
                        /\ table'[l][i] =
                              DirectionalTransitionCost(ID_MAPPING[start_id + 1],
                                  ID_MAPPING[goal_id + 1], table[level - 1])
                        /\ table'[l][i] >= 1
                   ELSE /\ table'[l][i] = table[l][i]
                        /\ table[l][i] = 0 <=> (l > level \/ (l = level /\ i > BuildIndex))
            /\ IF BuildIndex < 24
               THEN pc' = "build" /\ level' = level /\ start_id' * 5 + goal_id' = BuildIndex + 1
               ELSE IF level < indirection
               THEN pc' = "build" /\ level' = level + 1 /\ start_id' = 0 /\ goal_id' = 0
               ELSE pc' = "sum"]_vars
    /\ [][pc \notin {"table", "build"} => table' \in {table, <<>>}]_vars

C24_Witness ==
    /\ pc = "build"
    /\ indirection = 2
    /\ level = 2
    /\ start_id = 2
    /\ goal_id = 3
    /\ table[2][12] >= 1
    /\ table[2][13] = 0
    /\ table[1] = LevelTable(1)
    /\ table[0] = LevelTable(0)

----------------------------------------------------------------------------
\* The lifetime of the table over the codes of one input, checked under Spec.

FullTable == [l \in 0..indirection |-> LevelTable(l)]

----------------------------------------------------------------------------
\* The independence of the entries of a level, checked under FanOutSpec.

\* the order in which the entries written so far were taken is not row-major
OutOfOrder ==
    \E i \in 0..24 : \E j \in 0..24 :
        i < j /\ table[level][i] = 0 /\ table[level][j] # 0

\* C26: the 25 entries of a level are mutually independent: whatever the order
\* in which the entries of table[L] are computed, each from table[L-1] alone,
\* every entry written is the entry the sequential row-major loop writes (the
\* minimum over the enumerated sequences under table[L-1]), and every
\* completed level, and the whole table at the end, is the same as the one the
\* sequential loop builds.
C26_EntriesIndependent ==
    /\ pc = "build" =>
           \A i \in 0..24 :
               table[level][i] # 0 =>
                   table[level][i] =
                       DirectionalTransitionCost(ID_MAPPING[(i \div 5) + 1],
                           ID_MAPPING[(i % 5) + 1], table[level - 1])
    /\ (pc = "build" /\ level > 1 /\ Unwritten = 0..24) =>
           table[level - 1] = LevelTable(level - 1)
    /\ pc = "sum" => table = FullTable

C26_Witness ==
    /\ pc = "build"
    /\ indirection = 2
    /\ level = 2
    /\ table[1] = LevelTable(1)
    /\ table[2][0] = 0
    /\ table[2][1] # 0
    /\ table[2][1] = LevelTable(2)[1]
    /\ OutOfOrder

----------------------------------------------------------------------------
\* The returned sequences replayed with go(), checked under PathSpec.

\* The button reached from b by the first k moves of dirs, each made with
\* go(): an Err once a move is refused.
RECURSIVE Replay(_, _, _, _)
Replay(pad, b, dirs, k) ==
    IF k = 0 THEN Ok(b)
    ELSE LET before == Replay(pad, b, dirs, k - 1)
         IN  IF IsOk(before) THEN go(pad, OkValue(before), dirs[k]) ELSE Err

\* The move from cell a to cell b brings one axis one cell nearer to cell g and
\* leaves the other axis where it was.
ReducesOneAxis(a, b, g) ==
    \/ Abs(b[1] - g[1]) = Abs(a[1] - g[1]) - 1 /\ b[2] = a[2]
    \/ Abs(b[2] - g[2]) = Abs(a[2] - g[2]) - 1 /\ b[1] = a[1]

\* The nodes pushed from the node whose path info has index p.
Successors(p) ==
    {k \in 1..Len(iter.infos) :
        IsSome(iter.infos[k]) /\ Unwrap(iter.infos[k]).prev_index = p}

\* C27: every sequence the enumerator returns is a legal walk: replayed from
\* start with go(), no move is refused (none enters the gap or leaves the
\* grid), every move brings one axis one cell nearer to the goal and leaves the
\* other as it is, and the last move ends on goal; and from no node are more
\* than 2 successors pushed.
C27_LegalWalks ==
    /\ \A i \in 1..Len(yielded) :
          LET dirs == MovesOf(yielded[i])
          IN  /\ IsFramed(yielded[i])
              /\ \A k \in 1..Len(dirs) :
                    /\ IsOk(Replay(iter.pad, path_start, dirs, k))
                    /\ ReducesOneAxis(
                          get_pos(iter.pad, OkValue(Replay(iter.pad, path_start, dirs, k - 1))),
                          get_pos(iter.pad, OkValue(Replay(iter.pad, path_start, dirs, k))),
                          GoalPos)
              /\ Replay(iter.pad, path_start, dirs, Len(dirs)) = Ok(iter.goal)
    /\ \A p \in 0..(Len(iter.infos) - 1) : Cardinality(Successors(p)) <= 2

\* Numeric 1 -> 9: six walks returned, the start node with two successors.
C27_Witness ==
    /\ iter.pad = "num"
    /\ path_start = "Button1"
    /\ iter.goal = "Button9"
    /\ finished
    /\ Len(yielded) = 6
    /\ Cardinality(Successors(0)) = 2
    /\ Replay("num", "Button1", MovesOf(yielded[6]), 4) = Ok("Button9")

----------------------------------------------------------------------------
\* Straight runs against zig-zags, checked under PathSpec with the levels of
\* the table as move costs.

\* how often a walk changes its direction
Turns(dirs) == Cardinality({k \in 1..(Len(dirs) - 1) : dirs[k] # dirs[k + 1]})

StraightRuns == {i \in 1..Len(yielded) : Turns(MovesOf(yielded[i])) <= 1}

ZigZags == {i \in 1..Len(yielded) : Turns(MovesOf(yielded[i])) > 1}

\* C28: for every level up to the bound and every pair of buttons of either
\* keypad, the minimum of the cost over all the sequences enumerated is the
\* cost of a sequence with at most one turn; there are one or two such
\* sequences, and no zig-zag costs less than the cheaper of them.
C28_StraightRunsAttainMinimum ==
    finished =>
        /\ Cardinality(StraightRuns) \in 1..2
        /\ \A l \in 0..MaxIndirection :
              LET move_cost == LevelTable(l)
              IN  \E i \in StraightRuns :
                      \A j \in 1..Len(yielded) :
                          get_path_cost(yielded[i], move_cost)
                              <= get_path_cost(yielded[j], move_cost)

\* Numeric 7 -> 6: three walks, one of them a zig-zag that at level 2 costs
\* more than a straight run.
C28_Witness ==
    /\ finished
    /\ iter.pad = "num"
    /\ path_start = "Button7"
    /\ iter.goal = "Button6"
    /\ Cardinality(StraightRuns) = 2
    /\ Cardinality(ZigZags) = 1
    /\ \E i \in StraightRuns : \E j \in ZigZags :
          get_path_cost(yielded[i], LevelTable(2)) < get_path_cost(yielded[j], LevelTable(2))

----------------------------------------------------------------------------
\* The two expect("at least one path exists"), checked under TermSpec: the
\* enumerations of every pair and the runs of the program.

\* C29: for every ordered pair of buttons of the directional and of the
\* numeric keypad the enumerator returns at least one sequence before it
\* returns None; so neither the construction of the table nor the final sum
\* ever panics on its expect, every entry of a level >= 1 is nonzero once it
\* has been written, and none is 0 when the table is read.
C29_AtLeastOnePath ==
    /\ []((pc = "idle" /\ finished) => Len(yielded) >= 1)
    /\ [][(pc = "build" \/ pc = "sum") => pc' # "panic"]_vars
    /\ [](pc = "build" =>
            \A l \in 1..indirection : \A i \in 0..24 :
                (l < level \/ (l = level /\ i < BuildIndex)) => table[l][i] # 0)
    /\ [](pc = "sum" =>
            \A l \in 1..indirection : \A i \in 0..24 : table[l][i] # 0)

C29_Witness ==
    /\ pc = "sum"
    /\ indirection = 2
    /\ sequences[seq_idx] = <<"ButtonA", "Button8", "ButtonA">>
    /\ \A l \in 1..2 : \A i \in 0..24 : table[l][i] # 0
    /\ \A i \in 1..2 :
          Drain(iter_paths("num", sequences[seq_idx][i], sequences[seq_idx][i + 1])) # <<>>

----------------------------------------------------------------------------
\* The diagonal of the table, checked under Spec.

\* C30: the diagonal entries stay 1: for every directional button X and every
\* level L >= 0, table[L][X,X] = 1 (level 0 from its allocation, a level
\* L >= 1 from the moment the entry is written: staying on a button costs the
\* one press of Activate), and every entry of every level, once written, is
\* at least 1; the table the final sum reads has no entry below 1.
C30_DiagonalStaysOne ==
    TableLive =>
        /\ \A l \in 0..indirection : \A x \in DirpadButtons :
              (l = 0 \/ Written(l, x, x)) => Entry(table[l], x, x) = 1
        /\ \A l \in 0..indirection : \A x \in DirpadButtons : \A y \in DirpadButtons :
              (l = 0 \/ Written(l, x, y)) => Entry(table[l], x, y) >= 1
        /\ pc = "sum" => \A l \in 0..indirection : \A i \in 0..24 : table[l][i] >= 1

\* Level 2 just past (Down, Down): that entry is 1, the one before it is not.
C30_Witness ==
    /\ pc = "build"
    /\ level = 2
    /\ start_id = 3
    /\ goal_id = 4
    /\ Entry(table[2], "ButtonD", "ButtonD") = 1
    /\ Entry(table[1], "ButtonD", "ButtonD") = 1
    /\ Entry(table[2], "ButtonD", "ButtonR") > 1

============================================================================
